---- MODULE Spec2Model ----
(***************************************************************************)
(* TwitCanva canvas core: the Node Store with the derivation handlers of   *)
(* useImageNodeHandlers (image-to-image, image-to-video, change-angle      *)
(* regeneration with its two-animation-frame generation trigger), the      *)
(* prompt builder buildAnglePrompt, the context-menu controller of         *)
(* useContextMenu with its selection dispatcher, and the TwitterPostModal  *)
(* with the session routes of the server it talks to.                      *)
(***************************************************************************)
EXTENDS Integers, Sequences, FiniteSets, TLC

\* ------------------------------------------------------------------------
\* Bounds
\* ------------------------------------------------------------------------
\* Size of the pool of node identifiers that can ever be minted.
MaxIds == 3

\* Number of menu selections followed in the selection specification.
MaxSelects == 2

\* Number of sessions the server creates: the OAuth sign-ins that complete.
MaxSessions == 2

\* Number of checkAuthStatus requests the modal sends.
MaxChecks == 2

\* Number of useFaceDetection instances that are ever mounted.
MaxHooks == 3

\* Number of detectFaces calls made on one instance.
MaxDetects == 2

\* Number of requests POST /post handles.
MaxPosts == 2

\* ------------------------------------------------------------------------
\* Program constants
\* ------------------------------------------------------------------------
GAP == 100

NODE_WIDTH == 340

MAX_CHARS == 280

\* ------------------------------------------------------------------------
\* Value domains
\* ------------------------------------------------------------------------
\* Identifiers crypto.randomUUID() / the node creators can mint.
Ids == { "n" \o ToString(i) : i \in 1 .. MaxIds }

\* Every id a caller can pass: the mintable ones and one that no node ever has.
CallIds == Ids \cup { "n0" }

\* An absent optional string field (undefined in the source).
Undefined == "undefined"

\* An absent object: find() without a match, a node without angleSettings.
UndefinedObject == [ undefined |-> TRUE ]

\* Screen points of pointer events: <<clientX, clientY>>.
ClientPoints == { << 10, 20 >>, << 300, 200 >>, << 640, 480 >> }

\* Bounding boxes of the toolbar add button: <<right, top>>.
ToolbarRects == { << 48, 100 >>, << 56, 300 >> }

\* Window sizes: <<innerWidth, innerHeight>>.
WindowSizes == { << 800, 600 >>, << 1280, 720 >> }

\* Ids of the elements a pointer event can hit.
EventTargets == { "canvas-background", "node-card" }

\* The root nodes a user can drop on the canvas:
\* <<type, x, y, aspectRatio, resolution>>.
RootNodes ==
    { << "IMAGE", 0, 0, Undefined, "2K" >>,
      << "IMAGE", 100, 50, "16:9", Undefined >> }

\* Angle settings the angle panel stores on a node in this specification.
PanelSettings ==
    { [rotation |-> -30, tilt |-> 20, scale |-> 60, wideAngle |-> TRUE] }

\* DEFAULT_SETTINGS of the angle panel.
DEFAULT_SETTINGS == [rotation |-> 0, tilt |-> 0, scale |-> 0, wideAngle |-> FALSE]

\* Slider positions of the angle panel used as inputs of buildAnglePrompt:
\* rotation in -180 .. 180, tilt in -90 .. 90, scale in 0 .. 100.
Rotations == { -180, -30, 0, 45 }

Tilts == { -90, 0, 20 }

Scales == { 0, 1, 50, 51, 60, 100 }

AngleSettingsValues ==
    [ rotation : Rotations, tilt : Tilts, scale : Scales, wideAngle : BOOLEAN ]

\* Entries of the menu the user can pick: node types to create, or DELETE.
MenuChoices == { "IMAGE", "VIDEO", "DELETE" }

\* Viewport transforms the canvas renderer can be in.
Viewports ==
    { [ panX |-> 0, panY |-> 0, zoom |-> 1 ], [ panX |-> -120, panY |-> 40, zoom |-> 2 ] }

\* null in a string-valued state of the modal or in localStorage.
Null == "null"

\* null in the user state of the modal.
NullUser == [ null |-> TRUE ]

\* Session ids the server hands out; the k-th session created is "s<k>".
Sessions == { "s" \o ToString(i) : i \in 1 .. MaxSessions }

\* A text of n letters.
Letters(n) == [ i \in 1 .. n |-> "a" ]

\* Contents of the tweet textarea, as sequences of characters.
TweetTexts == { << >>, << " ", " " >>, << " ", "h", "i", " " >> }

\* Texts around the limit: of 280 letters, of 281 letters, of 279 letters and
\* a trailing space, of 280 letters and a trailing space.
LongTexts ==
    { Letters(280), Letters(281), Letters(279) \o << " " >>, Letters(280) \o << " " >> }

\* Texts of the post specification.
PostTexts == TweetTexts \cup LongTexts

\* The mediaUrl prop of the modal, and its mediaType prop.
MediaUrls == { Null, "/library/images/a.png" }

MediaType == "image"

\* Errors uploadMediaFromUrl and postTweet can throw, by error.code; 0 is a
\* call that succeeds, 1 an error without a code.
ErrorCodes == { 0, 1, 401, 403, 429 }

\* What the two calls of one request do: << uploadError, tweetError >>; after
\* an upload that throws, postTweet is not reached.
Outcomes == { o \in ErrorCodes \X ErrorCodes : o[1] = 0 \/ o[2] = 0 }

\* Values of the X-Twitter-Session header of a request made by any client.
HeaderValues == { "s1", "" }

\* The gestures that call onClose.
CloseGestures == { "backdrop", "header", "cancel", "escape" }

\* The useFaceDetection instances, in the order they mount.
Hooks == 1 .. MaxHooks

VARIABLES
    nodes,            \* the Node Store: the `nodes` React state, a sequence of NodeData
                      \* (the optional angleMode flag is "true", "false" or Undefined)
    selectedNodeIds,  \* the selection state set through setSelectedNodeIds
    rafCallbacks,     \* pending requestAnimationFrame callbacks, in registration order
    generated,        \* log of onGenerateNode invocations, in order
    everIds,          \* every id that has been the id of a store node
    derivedFrom,      \* history: derived node id -> the handler call that made it: the
                      \* handler, the source id, whether onGenerateNode was supplied
    framesSince,      \* history: angle child id -> animation frames run since it was added
                      \* while its generation was pending
    callCases,        \* history: the special cases of handler calls made so far
    contextMenu,      \* the ContextMenuState of useContextMenu
    lastOpen,         \* history: the latest call that opened a menu, with its inputs
    prevMenu,         \* history: the ContextMenuState just before that call
    promptInput,      \* the settings argument of the buildAnglePrompt call under study
    promptParts,      \* its local `parts` array at the return statement
    promptOutput,     \* the string it returned, Undefined before the call
    viewport,         \* the viewport prop of useContextMenu in the current render
    dispatchCalls,    \* number of calls of handleSelectTypeFromMenu made so far
    lastDispatch,     \* the arguments of the latest of those calls
    isOpen,           \* the isOpen prop of TwitterPostModal
    tweetText,        \* its tweetText, status, error, tweetUrl, user and sessionId
    status,           \* states
    error,
    tweetUrl,
    user,
    sessionId,
    localStorage,     \* the twitter_session_id item of localStorage, or Null
    serverSessions,   \* the sessions the server holds a user for
    everSessions,     \* every session the server ever created
    statusChecks,     \* checkAuthStatus calls awaiting the fetch or its continuation
    checksSent,       \* number of checkAuthStatus calls made
    popupOpen,        \* whether the 'Twitter Login' popup window is open
    logoutCall,       \* the handleLogout call suspended at its await, if any
    postInFlight,     \* whether a handlePost call is suspended at its await
    established,      \* history: the session of the latest twitter-auth-success
    everSignedOut,    \* history: whether handleLogout was ever called
    snapshot,         \* the store array a reader held before the latest handler
                      \* write, as that reader sees it after the write
    modelsLoaded,     \* the module-level flags of useFaceDetection
    modelsLoading,
    hooks,            \* per instance: its lifecycle phase and its isModelLoaded and
                      \* isLoading states
    loadsInFlight,    \* the instances whose loadModels awaits loadFromUri
    loadsStarted,     \* history: number of loadFromUri calls made
    loadsFailed,      \* history: number of them that were rejected
    detecting,        \* per instance: detectFaces calls suspended at an await
    detectCalls,      \* per instance: number of detectFaces calls made
    lastDetect,       \* history: the latest step of a detectFaces call: whether the
                      \* call passed the models check, isLoading before and after
                      \* the step, what the call has returned
    postRequest,      \* the request of the modal's handlePost in flight, if any
    lastRoute,        \* history: the latest request POST /post handled, its answer
    uploads,          \* number of uploadMediaFromUrl calls made by POST /post
    tweets            \* number of postTweet calls made by POST /post

nodeVars == << nodes, selectedNodeIds, rafCallbacks, generated,
               everIds, derivedFrom, framesSince >>

menuVars == << contextMenu, lastOpen, prevMenu >>

promptVars == << promptInput, promptParts, promptOutput >>

selectVars == << viewport, dispatchCalls, lastDispatch >>

modalVars == << isOpen, tweetText, status, error, tweetUrl, user, sessionId,
                localStorage, serverSessions, everSessions, statusChecks, checksSent,
                popupOpen, logoutCall, postInFlight, established, everSignedOut >>

frameVars == << snapshot >>

faceVars == << modelsLoaded, modelsLoading, hooks, loadsInFlight, loadsStarted,
               loadsFailed, detecting, detectCalls, lastDetect >>

routeVars == << postRequest, lastRoute, uploads, tweets >>

extVars == << frameVars, faceVars, routeVars >>

vars == << nodeVars, menuVars, callCases, promptVars, selectVars, modalVars, extVars >>

\* ------------------------------------------------------------------------
\* Helpers
\* ------------------------------------------------------------------------
Abs(n) == IF n < 0 THEN -n ELSE n

\* The set of elements of a sequence.
Range(s) == { s[i] : i \in 1 .. Len(s) }

\* The ids of the nodes of a store.
NodeIds(ns) == { ns[i].id : i \in 1 .. Len(ns) }

\* parts.join(' ')
RECURSIVE Join(_)
Join(parts) ==
    IF Len(parts) = 0 THEN ""
    ELSE IF Len(parts) = 1 THEN parts[1]
    ELSE parts[1] \o " " \o Join(Tail(parts))

\* find() that falls back to the first node when nothing matches.
Find_FirstOnMiss(ns, nodeId) ==
    IF \E i \in 1 .. Len(ns) : ns[i].id = nodeId
    THEN ns[CHOOSE i \in 1 .. Len(ns) :
                /\ ns[i].id = nodeId
                /\ \A j \in 1 .. (i - 1) : ns[j].id # nodeId]
    ELSE IF Len(ns) > 0 THEN ns[1] ELSE UndefinedObject

\* nodes.find(n => n.id === nodeId): the first node with that id, or undefined.
Find(ns, nodeId) ==
    IF \E i \in 1 .. Len(ns) : ns[i].id = nodeId
    THEN ns[CHOOSE i \in 1 .. Len(ns) :
                /\ ns[i].id = nodeId
                /\ \A j \in 1 .. (i - 1) : ns[j].id # nodeId]
    ELSE UndefinedObject

\* a || 'Auto'
OrAuto(a) == IF a = Undefined THEN "Auto" ELSE a

PREAMBLE ==
    "Create a new photograph of this exact same person/subject from a different camera viewing angle. Keep the same scene, lighting, clothing, and background. Only change the camera position."

ORIENTATION ==
    "IMPORTANT: Do NOT rotate or flip the final image. The subject should remain upright and properly oriented."

\* RotationPart printing the signed angle instead of its magnitude.
RotationPart_Signed(settings) ==
    IF settings.rotation # 0
    THEN IF settings.rotation > 0
         THEN << "Move the camera " \o ToString(settings.rotation)
                 \o "° to the right side of the subject, as if walking around them clockwise." >>
         ELSE << "Move the camera " \o ToString(settings.rotation)
                 \o "° to the left side of the subject, as if walking around them counter-clockwise." >>
    ELSE << >>

RotationPart(settings) ==
    IF settings.rotation # 0
    THEN IF settings.rotation > 0
         THEN << "Move the camera " \o ToString(Abs(settings.rotation))
                 \o "° to the right side of the subject, as if walking around them clockwise." >>
         ELSE << "Move the camera " \o ToString(Abs(settings.rotation))
                 \o "° to the left side of the subject, as if walking around them counter-clockwise." >>
    ELSE << >>

TiltPart(settings) ==
    IF settings.tilt # 0
    THEN IF settings.tilt > 0
         THEN << "Raise the camera viewpoint " \o ToString(Abs(settings.tilt))
                 \o "° higher, looking slightly down at the subject." >>
         ELSE << "Lower the camera viewpoint " \o ToString(Abs(settings.tilt))
                 \o "° lower, looking slightly up at the subject." >>
    ELSE << >>

\* ScalePart with the upper threshold at 50 inclusive.
ScalePart_From50(settings) ==
    IF settings.scale >= 50
    THEN << "Position the camera closer to the subject for a tighter frame." >>
    ELSE IF settings.scale > 0
         THEN << "Move the camera slightly closer to the subject." >>
         ELSE << >>

ScalePart(settings) ==
    IF settings.scale > 50
    THEN << "Position the camera closer to the subject for a tighter frame." >>
    ELSE IF settings.scale > 0
         THEN << "Move the camera slightly closer to the subject." >>
         ELSE << >>

WideAnglePart(settings) ==
    IF settings.wideAngle
    THEN << "Use wide-angle lens perspective with slight barrel distortion at edges." >>
    ELSE << >>

\* The parts array with the tilt directive pushed before the rotation one.
AnglePromptParts_TiltFirst(settings) ==
    << PREAMBLE >> \o TiltPart(settings) \o RotationPart(settings)
        \o ScalePart(settings) \o WideAnglePart(settings) \o << ORIENTATION >>

\* The parts array of buildAnglePrompt just before the join.
AnglePromptParts(settings) ==
    << PREAMBLE >> \o RotationPart(settings) \o TiltPart(settings)
        \o ScalePart(settings) \o WideAnglePart(settings) \o << ORIENTATION >>

buildAnglePrompt(settings) == Join(AnglePromptParts(settings))

\* ------------------------------------------------------------------------
\* Node construction
\* ------------------------------------------------------------------------
\* An id generator that only avoids the ids of the nodes now in the store.
randomUUID_Reused == Ids \ NodeIds(nodes)

\* crypto.randomUUID(): an identifier that was never returned before. The
\* model names the k-th identifier minted "n<k>"; the pool has MaxIds of them.
randomUUID ==
    { id \in Ids : id = "n" \o ToString(Cardinality(everIds) + 1) }

\* newImageNode placed without the gap.
newImageNode_NoGap(imageNode, newNodeId, nodeId) ==
    [ id |-> newNodeId,
      type |-> "IMAGE",
      x |-> imageNode.x + NODE_WIDTH,
      y |-> imageNode.y,
      prompt |-> "",
      status |-> "IDLE",
      model |-> "Banana Pro",
      imageModel |-> Undefined,
      aspectRatio |-> "Auto",
      resolution |-> "Auto",
      parentIds |-> << nodeId >>,
      angleSettings |-> UndefinedObject,
      angleMode |-> Undefined ]

\* newImageNode that takes aspectRatio and resolution over from the source.
newImageNode_InheritsConfig(imageNode, newNodeId, nodeId) ==
    [ id |-> newNodeId,
      type |-> "IMAGE",
      x |-> imageNode.x + NODE_WIDTH + GAP,
      y |-> imageNode.y,
      prompt |-> "",
      status |-> "IDLE",
      model |-> "Banana Pro",
      imageModel |-> Undefined,
      aspectRatio |-> OrAuto(imageNode.aspectRatio),
      resolution |-> OrAuto(imageNode.resolution),
      parentIds |-> << nodeId >>,
      angleSettings |-> UndefinedObject,
      angleMode |-> Undefined ]

\* The node literal of handleImageToImage.
newImageNode(imageNode, newNodeId, nodeId) ==
    [ id |-> newNodeId,
      type |-> "IMAGE",
      x |-> imageNode.x + NODE_WIDTH + GAP,
      y |-> imageNode.y,
      prompt |-> "",
      status |-> "IDLE",
      model |-> "Banana Pro",
      imageModel |-> Undefined,
      aspectRatio |-> "Auto",
      resolution |-> "Auto",
      parentIds |-> << nodeId >>,
      angleSettings |-> UndefinedObject,
      angleMode |-> Undefined ]

\* newVideoNode with the type of the image handler.
newVideoNode_AsImage(imageNode, newNodeId, nodeId) ==
    [ id |-> newNodeId,
      type |-> "IMAGE",
      x |-> imageNode.x + NODE_WIDTH + GAP,
      y |-> imageNode.y,
      prompt |-> "",
      status |-> "IDLE",
      model |-> "Banana Pro",
      imageModel |-> Undefined,
      aspectRatio |-> "Auto",
      resolution |-> "Auto",
      parentIds |-> << nodeId >>,
      angleSettings |-> UndefinedObject,
      angleMode |-> Undefined ]

\* The node literal of handleImageToVideo.
newVideoNode(imageNode, newNodeId, nodeId) ==
    [ id |-> newNodeId,
      type |-> "VIDEO",
      x |-> imageNode.x + NODE_WIDTH + GAP,
      y |-> imageNode.y,
      prompt |-> "",
      status |-> "IDLE",
      model |-> "Banana Pro",
      imageModel |-> Undefined,
      aspectRatio |-> "Auto",
      resolution |-> "Auto",
      parentIds |-> << nodeId >>,
      angleSettings |-> UndefinedObject,
      angleMode |-> Undefined ]

\* newAngleNode created without its parent link.
newAngleNode_Unlinked(imageNode, newNodeId, nodeId) ==
    [ id |-> newNodeId,
      type |-> "IMAGE",
      x |-> imageNode.x + NODE_WIDTH + GAP,
      y |-> imageNode.y,
      prompt |-> buildAnglePrompt(imageNode.angleSettings),
      status |-> "IDLE",
      model |-> "Banana Pro",
      imageModel |-> "gemini-pro",
      aspectRatio |-> OrAuto(imageNode.aspectRatio),
      resolution |-> OrAuto(imageNode.resolution),
      parentIds |-> << >>,
      angleSettings |-> UndefinedObject,
      angleMode |-> Undefined ]

\* The node literal of handleChangeAngleGenerate.
newAngleNode(imageNode, newNodeId, nodeId) ==
    [ id |-> newNodeId,
      type |-> "IMAGE",
      x |-> imageNode.x + NODE_WIDTH + GAP,
      y |-> imageNode.y,
      prompt |-> buildAnglePrompt(imageNode.angleSettings),
      status |-> "IDLE",
      model |-> "Banana Pro",
      imageModel |-> "gemini-pro",
      aspectRatio |-> OrAuto(imageNode.aspectRatio),
      resolution |-> OrAuto(imageNode.resolution),
      parentIds |-> << nodeId >>,
      angleSettings |-> UndefinedObject,
      angleMode |-> Undefined ]

\* prev => [...prev, newNode]
AppendNode(prev, newNode) == Append(prev, newNode)

\* The array prev, with its node objects, as a reader holding it sees it after
\* an updater that pushes the new node onto prev itself.
PrevAfterAppend_Push(prev, newNode) == Append(prev, newNode)

\* ... after prev => [...prev, newNode]: the spread copies the elements into a
\* new array; prev and its objects are not written.
PrevAfterAppend(prev, newNode) == prev

\* ... after an updater that assigns angleMode on the source object itself.
PrevAfterAngleUpdate_InPlace(prev, nodeId, newNode) ==
    [ i \in 1 .. Len(prev) |->
        IF prev[i].id = nodeId
        THEN [ prev[i] EXCEPT !.angleMode = "false" ]
        ELSE prev[i] ]

\* ... after prev => [...prev.map(n => n.id === nodeId ? {...n, angleMode:
\* false} : n), newNode]: map builds a new array and the object spread a new
\* object for the source; prev and its objects are not written.
PrevAfterAngleUpdate(prev, nodeId, newNode) == prev

\* prev => [...prev.map(n => n.id === nodeId ? {...n, angleMode: false} : n), newNode]
AngleUpdate(prev, nodeId, newNode) ==
    Append([ i \in 1 .. Len(prev) |->
                IF prev[i].id = nodeId
                THEN [ prev[i] EXCEPT !.angleMode = "false" ]
                ELSE prev[i] ],
           newNode)

\* ------------------------------------------------------------------------
\* Initial state
\* ------------------------------------------------------------------------
\* No call of the dispatcher was made yet.
NoDispatch == [ none |-> TRUE ]

\* No handleLogout call is suspended.
NoLogout == [ phase |-> "none", session |-> Null ]

\* The modal as mounted, closed, in a browser that holds no session.
ModalInit ==
    /\ isOpen = FALSE
    /\ tweetText = << >>
    /\ status = "idle"
    /\ error = Null
    /\ tweetUrl = Null
    /\ user = NullUser
    /\ sessionId = Null
    /\ localStorage = Null
    /\ serverSessions = {}
    /\ everSessions = {}
    /\ statusChecks = {}
    /\ checksSent = 0
    /\ popupOpen = FALSE
    /\ logoutCall = NoLogout
    /\ postInFlight = FALSE
    /\ established = Null
    /\ everSignedOut = FALSE

\* No detectFaces call was made yet.
NoDetect == [ hook |-> 0, passed |-> FALSE, before |-> FALSE, after |-> FALSE,
              returned |-> "nothing" ]

\* No request of handlePost is in flight.
NoRequest == [ none |-> TRUE ]

\* A request that has no answer yet.
NoAnswer == 0

\* POST /post handled no request yet.
NoRoute == [ count |-> 0, from |-> "none" ]

\* useFaceDetection before any instance mounts, and the server before any post.
ExtInit ==
    /\ snapshot = << >>
    /\ modelsLoaded = FALSE
    /\ modelsLoading = FALSE
    /\ hooks = [ h \in Hooks |-> [ phase |-> "absent", isModelLoaded |-> FALSE,
                                   isLoading |-> FALSE ] ]
    /\ loadsInFlight = {}
    /\ loadsStarted = 0
    /\ loadsFailed = 0
    /\ detecting = [ h \in Hooks |-> 0 ]
    /\ detectCalls = [ h \in Hooks |-> 0 ]
    /\ lastDetect = NoDetect
    /\ postRequest = NoRequest
    /\ lastRoute = NoRoute
    /\ uploads = 0
    /\ tweets = 0

NoOpen == [ op |-> "none", x |-> 0, y |-> 0, nodeId |-> Undefined,
            side |-> Undefined, closed |-> FALSE ]

Init ==
    /\ nodes = << >>
    /\ selectedNodeIds = << >>
    /\ rafCallbacks = << >>
    /\ generated = << >>
    /\ everIds = {}
    /\ derivedFrom = << >>
    /\ framesSince = << >>
    /\ callCases = {}
    /\ contextMenu = [ isOpen |-> FALSE, x |-> 0, y |-> 0, type |-> "global",
                       sourceNodeId |-> Undefined, connectorSide |-> Undefined ]
    /\ lastOpen = NoOpen
    /\ prevMenu = contextMenu
    /\ promptInput = DEFAULT_SETTINGS
    /\ promptParts = << >>
    /\ promptOutput = Undefined
    /\ viewport = [ panX |-> 0, panY |-> 0, zoom |-> 1 ]
    /\ dispatchCalls = 0
    /\ lastDispatch = NoDispatch
    /\ ModalInit
    /\ ExtInit

\* ------------------------------------------------------------------------
\* Environment of the hook: the canvas operations that feed the Node Store
\* ------------------------------------------------------------------------
\* The user drops a new root node on the canvas.
createNode(root) ==
    /\ \E newNodeId \in randomUUID :
          /\ nodes' = Append(nodes,
                [ id |-> newNodeId, type |-> root[1], x |-> root[2], y |-> root[3],
                  prompt |-> "", status |-> "IDLE", model |-> "Banana Pro",
                  imageModel |-> Undefined,
                  aspectRatio |-> root[4], resolution |-> root[5],
                  parentIds |-> << >>,
                  angleSettings |-> UndefinedObject, angleMode |-> Undefined ])
          /\ everIds' = everIds \cup NodeIds(nodes')
    /\ UNCHANGED << selectedNodeIds, rafCallbacks, generated,
                    derivedFrom, framesSince >>

\* The user deletes a node: it is removed from the store.
deleteNode(nodeId) ==
    /\ nodeId \in NodeIds(nodes)
    /\ nodes' = SelectSeq(nodes, LAMBDA n : n.id # nodeId)
    /\ UNCHANGED << selectedNodeIds, rafCallbacks, generated,
                    everIds, derivedFrom, framesSince >>

\* The angle panel stores its settings on an image node in angle mode.
onSettingsChange(nodeId, settings) ==
    /\ \E i \in 1 .. Len(nodes) :
          /\ nodes[i].id = nodeId
          /\ nodes[i].type = "IMAGE"
          /\ nodes' = [ nodes EXCEPT ![i].angleSettings = settings,
                                     ![i].angleMode = "true" ]
    /\ UNCHANGED << selectedNodeIds, rafCallbacks, generated,
                    everIds, derivedFrom, framesSince >>

\* ------------------------------------------------------------------------
\* useImageNodeHandlers
\* ------------------------------------------------------------------------
\* handleImageToVideo without its early return, placing from the origin.
handleImageToVideo_NoGuard(nodeId) ==
    LET found == Find(nodes, nodeId)
        imageNode == IF found = UndefinedObject THEN [ x |-> 0, y |-> 0 ] ELSE found
    IN  \E newNodeId \in randomUUID :
         /\ nodes' = AppendNode(nodes, newVideoNode(imageNode, newNodeId, nodeId))
         /\ selectedNodeIds' = << newNodeId >>
         /\ everIds' = everIds \cup NodeIds(nodes')
         /\ derivedFrom' = (newNodeId :> [ op |-> "handleImageToVideo", source |-> nodeId,
                                             trigger |-> FALSE ]) @@ derivedFrom
         /\ UNCHANGED << rafCallbacks, generated, framesSince >>

\* handleImageToVideo that adds the new node to the selection it finds.
handleImageToVideo_AddsToSelection(nodeId) ==
    LET imageNode == Find(nodes, nodeId) IN
    IF imageNode = UndefinedObject
    THEN UNCHANGED nodeVars
    ELSE \E newNodeId \in randomUUID :
         /\ nodes' = AppendNode(nodes, newVideoNode(imageNode, newNodeId, nodeId))
         /\ selectedNodeIds' = Append(selectedNodeIds, newNodeId)
         /\ everIds' = everIds \cup NodeIds(nodes')
         /\ derivedFrom' = (newNodeId :> [ op |-> "handleImageToVideo", source |-> nodeId,
                                             trigger |-> FALSE ]) @@ derivedFrom
         /\ UNCHANGED << rafCallbacks, generated, framesSince >>

handleImageToImage(nodeId) ==
    LET imageNode == Find(nodes, nodeId) IN
    IF imageNode = UndefinedObject
    THEN UNCHANGED nodeVars
    ELSE \E newNodeId \in randomUUID :
         /\ nodes' = AppendNode(nodes, newImageNode(imageNode, newNodeId, nodeId))
         /\ selectedNodeIds' = << newNodeId >>
         /\ everIds' = everIds \cup NodeIds(nodes')
         /\ derivedFrom' = (newNodeId :> [ op |-> "handleImageToImage", source |-> nodeId,
                                             trigger |-> FALSE ]) @@ derivedFrom
         /\ UNCHANGED << rafCallbacks, generated, framesSince >>

handleImageToVideo(nodeId) ==
    LET imageNode == Find(nodes, nodeId) IN
    IF imageNode = UndefinedObject
    THEN UNCHANGED nodeVars
    ELSE \E newNodeId \in randomUUID :
         /\ nodes' = AppendNode(nodes, newVideoNode(imageNode, newNodeId, nodeId))
         /\ selectedNodeIds' = << newNodeId >>
         /\ everIds' = everIds \cup NodeIds(nodes')
         /\ derivedFrom' = (newNodeId :> [ op |-> "handleImageToVideo", source |-> nodeId,
                                             trigger |-> FALSE ]) @@ derivedFrom
         /\ UNCHANGED << rafCallbacks, generated, framesSince >>

\* The trigger scheduled in a single animation frame.
scheduleGeneration_SingleFrame(queue, newNodeId, onGenerateNode) ==
    IF onGenerateNode
    THEN Append(queue, [ nodeId |-> newNodeId, inner |-> TRUE ])
    ELSE queue

\* Two requestAnimationFrame calls side by side instead of nested.
scheduleGeneration_Twice(queue, newNodeId, onGenerateNode) ==
    IF onGenerateNode
    THEN queue \o << [ nodeId |-> newNodeId, inner |-> FALSE ],
                     [ nodeId |-> newNodeId, inner |-> TRUE ] >>
    ELSE queue

\* if (onGenerateNode) requestAnimationFrame(() => requestAnimationFrame(...))
scheduleGeneration(queue, newNodeId, onGenerateNode) ==
    IF onGenerateNode
    THEN Append(queue, [ nodeId |-> newNodeId, inner |-> FALSE ])
    ELSE queue

\* handleChangeAngleGenerate that also returns early without a callback.
handleChangeAngleGenerate_NeedsTrigger(nodeId, onGenerateNode) ==
    LET imageNode == Find(nodes, nodeId) IN
    IF imageNode = UndefinedObject \/ imageNode.angleSettings = UndefinedObject
       \/ ~onGenerateNode
    THEN UNCHANGED nodeVars
    ELSE \E newNodeId \in randomUUID :
         /\ nodes' = AngleUpdate(nodes, nodeId, newAngleNode(imageNode, newNodeId, nodeId))
         /\ selectedNodeIds' = << newNodeId >>
         /\ rafCallbacks' = scheduleGeneration(rafCallbacks, newNodeId, onGenerateNode)
         /\ everIds' = everIds \cup NodeIds(nodes')
         /\ derivedFrom' = (newNodeId :> [ op |-> "handleChangeAngleGenerate",
                                             source |-> nodeId,
                                             trigger |-> onGenerateNode ]) @@ derivedFrom
         /\ framesSince' = (newNodeId :> 0) @@ framesSince
         /\ UNCHANGED generated

\* handleChangeAngleGenerate that only guards the lookup and falls back to the
\* panel's default settings for a node without angleSettings.
handleChangeAngleGenerate_DefaultSettings(nodeId, onGenerateNode) ==
    LET found == Find(nodes, nodeId)
        imageNode ==
            IF found # UndefinedObject /\ found.angleSettings = UndefinedObject
            THEN [ found EXCEPT !.angleSettings =
                     [rotation |-> 0, tilt |-> 0, scale |-> 0, wideAngle |-> FALSE] ]
            ELSE found
    IN
    IF imageNode = UndefinedObject
    THEN UNCHANGED nodeVars
    ELSE \E newNodeId \in randomUUID :
         /\ nodes' = AngleUpdate(nodes, nodeId, newAngleNode(imageNode, newNodeId, nodeId))
         /\ selectedNodeIds' = << newNodeId >>
         /\ rafCallbacks' = scheduleGeneration(rafCallbacks, newNodeId, onGenerateNode)
         /\ everIds' = everIds \cup NodeIds(nodes')
         /\ derivedFrom' = (newNodeId :> [ op |-> "handleChangeAngleGenerate",
                                             source |-> nodeId,
                                             trigger |-> onGenerateNode ]) @@ derivedFrom
         /\ framesSince' = (newNodeId :> 0) @@ framesSince
         /\ UNCHANGED generated

\* handleChangeAngleGenerate with the store written in two updates: the child
\* is appended first and the source's angleMode is cleared by a later update
\* that never comes within the call.
handleChangeAngleGenerate_TwoUpdates(nodeId, onGenerateNode) ==
    LET imageNode == Find(nodes, nodeId) IN
    IF imageNode = UndefinedObject \/ imageNode.angleSettings = UndefinedObject
    THEN UNCHANGED nodeVars
    ELSE \E newNodeId \in randomUUID :
         /\ nodes' = AppendNode(nodes, newAngleNode(imageNode, newNodeId, nodeId))
         /\ selectedNodeIds' = << newNodeId >>
         /\ rafCallbacks' = scheduleGeneration(rafCallbacks, newNodeId, onGenerateNode)
         /\ everIds' = everIds \cup NodeIds(nodes')
         /\ derivedFrom' = (newNodeId :> [ op |-> "handleChangeAngleGenerate",
                                             source |-> nodeId,
                                             trigger |-> onGenerateNode ]) @@ derivedFrom
         /\ framesSince' = (newNodeId :> 0) @@ framesSince
         /\ UNCHANGED generated

\* onGenerateNode is TRUE iff the hook was given the optional callback in the
\* render whose handler is called.
handleChangeAngleGenerate(nodeId, onGenerateNode) ==
    LET imageNode == Find(nodes, nodeId) IN
    IF imageNode = UndefinedObject \/ imageNode.angleSettings = UndefinedObject
    THEN UNCHANGED nodeVars
    ELSE \E newNodeId \in randomUUID :
         /\ nodes' = AngleUpdate(nodes, nodeId, newAngleNode(imageNode, newNodeId, nodeId))
         /\ selectedNodeIds' = << newNodeId >>
         /\ rafCallbacks' = scheduleGeneration(rafCallbacks, newNodeId, onGenerateNode)
         /\ everIds' = everIds \cup NodeIds(nodes')
         /\ derivedFrom' = (newNodeId :> [ op |-> "handleChangeAngleGenerate",
                                             source |-> nodeId,
                                             trigger |-> onGenerateNode ]) @@ derivedFrom
         /\ framesSince' = (newNodeId :> 0) @@ framesSince
         /\ UNCHANGED generated

\* ------------------------------------------------------------------------
\* The rendering scheduler
\* ------------------------------------------------------------------------
\* The callbacks the browser runs in one animation frame: the whole list that
\* was registered before the frame; callbacks registered during the frame
\* wait for the next one.
OuterCallbacks == SelectSeq(rafCallbacks, LAMBDA c : ~c.inner)

InnerCallbacks == SelectSeq(rafCallbacks, LAMBDA c : c.inner)

\* One animation frame: every outer callback registers its inner callback,
\* every inner callback calls onGenerateNode(newNodeId).
animationFrame ==
    /\ rafCallbacks # << >>
    /\ rafCallbacks' = [ i \in 1 .. Len(OuterCallbacks) |->
                            [ nodeId |-> OuterCallbacks[i].nodeId, inner |-> TRUE ] ]
    /\ generated' = generated \o
                        [ i \in 1 .. Len(InnerCallbacks) |->
                            [ nodeId |-> InnerCallbacks[i].nodeId,
                              present |-> InnerCallbacks[i].nodeId \in NodeIds(nodes) ] ]
    /\ framesSince' = [ id \in DOMAIN framesSince |->
                            IF \E i \in 1 .. Len(rafCallbacks) : rafCallbacks[i].nodeId = id
                            THEN framesSince[id] + 1
                            ELSE framesSince[id] ]
    /\ UNCHANGED << nodes, selectedNodeIds, everIds, derivedFrom >>

\* ------------------------------------------------------------------------
\* useContextMenu
\* ------------------------------------------------------------------------
\* The object literal of the three global openers, merged into the previous
\* state instead of replacing it.
GlobalMenu_Merged(x, y) ==
    [ contextMenu EXCEPT !.isOpen = TRUE, !.x = x, !.y = y, !.type = "global" ]

\* { isOpen: true, x, y, type: 'global' }: sourceNodeId and connectorSide absent.
GlobalMenu(x, y) ==
    [ isOpen |-> TRUE, x |-> x, y |-> y, type |-> "global",
      sourceNodeId |-> Undefined, connectorSide |-> Undefined ]

\* closeContextMenu that puts the initial state back instead of merging.
closeContextMenu_Reset ==
    /\ contextMenu' = [ isOpen |-> FALSE, x |-> 0, y |-> 0, type |-> "global",
                        sourceNodeId |-> Undefined, connectorSide |-> Undefined ]
    /\ lastOpen' = [ lastOpen EXCEPT !.closed = TRUE ]
    /\ UNCHANGED prevMenu

\* setContextMenu(prev => ({ ...prev, isOpen: false }))
closeContextMenu ==
    /\ contextMenu' = [ contextMenu EXCEPT !.isOpen = FALSE ]
    /\ lastOpen' = [ lastOpen EXCEPT !.closed = TRUE ]
    /\ UNCHANGED prevMenu

\* Records an opening call and the state it replaced.
Opened(op, x, y, nodeId, side) ==
    /\ lastOpen' = [ op |-> op, x |-> x, y |-> y, nodeId |-> nodeId,
                     side |-> side, closed |-> FALSE ]
    /\ prevMenu' = contextMenu

\* handleDoubleClick without the test of the event target.
handleDoubleClick_AnyTarget(target, clientX, clientY) ==
    /\ contextMenu' = GlobalMenu(clientX, clientY)
    /\ Opened("handleDoubleClick", clientX, clientY, Undefined, Undefined)

handleDoubleClick(target, clientX, clientY) ==
    IF target = "canvas-background"
    THEN /\ contextMenu' = GlobalMenu(clientX, clientY)
         /\ Opened("handleDoubleClick", clientX, clientY, Undefined, Undefined)
    ELSE UNCHANGED menuVars

handleGlobalContextMenu(target, clientX, clientY) ==
    IF target = "canvas-background"
    THEN /\ contextMenu' = GlobalMenu(clientX, clientY)
         /\ Opened("handleGlobalContextMenu", clientX, clientY, Undefined, Undefined)
    ELSE UNCHANGED menuVars

\* rect is the bounding box of the toolbar button: <<right, top>>.
handleToolbarAdd(rect) ==
    /\ contextMenu' = GlobalMenu(rect[1] + 10, rect[2])
    /\ Opened("handleToolbarAdd", rect[1], rect[2], Undefined, Undefined)

\* window is <<innerWidth, innerHeight>>; the sizes used are even.
openConnectorMenu(nodeId, direction, window) ==
    /\ contextMenu' = [ isOpen |-> TRUE,
                        x |-> window[1] \div 2,
                        y |-> window[2] \div 2,
                        type |-> "node-connector",
                        sourceNodeId |-> nodeId,
                        connectorSide |-> direction ]
    /\ Opened("openConnectorMenu", window[1], window[2], nodeId, direction)

\* openNodeOptionsMenu that leaves out the node the menu acts on.
openNodeOptionsMenu_NoSource(clientX, clientY, nodeId) ==
    /\ contextMenu' = [ isOpen |-> TRUE,
                        x |-> clientX,
                        y |-> clientY,
                        type |-> "node-options",
                        sourceNodeId |-> Undefined,
                        connectorSide |-> Undefined ]
    /\ Opened("openNodeOptionsMenu", clientX, clientY, nodeId, Undefined)

openNodeOptionsMenu(clientX, clientY, nodeId) ==
    /\ contextMenu' = [ isOpen |-> TRUE,
                        x |-> clientX,
                        y |-> clientY,
                        type |-> "node-options",
                        sourceNodeId |-> nodeId,
                        connectorSide |-> Undefined ]
    /\ Opened("openNodeOptionsMenu", clientX, clientY, nodeId, Undefined)

\* The dispatcher supplied to the hook: it turns the choice, with the menu
\* snapshot and the viewport it is given, into a graph mutation and closes the
\* menu through the closeMenu callback it is handed.
handleSelectTypeFromMenu(type, menu, view, closeMenu) ==
    /\ dispatchCalls' = dispatchCalls + 1
    /\ lastDispatch' = [ type |-> type, contextMenu |-> menu, viewport |-> view ]
    /\ closeMenu

\* handleContextMenuSelect memoized without its dependencies: the dispatcher
\* gets the menu state of the first render.
handleContextMenuSelect_StaleSnapshot(type) ==
    /\ handleSelectTypeFromMenu(
            type,
            [ isOpen |-> FALSE, x |-> 0, y |-> 0, type |-> "global",
              sourceNodeId |-> Undefined, connectorSide |-> Undefined ],
            viewport, closeContextMenu)
    /\ UNCHANGED viewport

handleContextMenuSelect(type) ==
    /\ handleSelectTypeFromMenu(type, contextMenu, viewport, closeContextMenu)
    /\ UNCHANGED viewport

\* The canvas renderer pans or zooms: the hook is rendered with a new viewport.
setViewport(view) ==
    /\ viewport' = view
    /\ UNCHANGED << menuVars, dispatchCalls, lastDispatch >>

\* ------------------------------------------------------------------------
\* Specification of the context-menu controller
\* ------------------------------------------------------------------------
\* The case of a pointer event for the two background handlers: it hit
\* something else than the canvas background, with the menu open or closed.
EventCase(target) ==
    IF target = "canvas-background" THEN {}
    ELSE IF contextMenu.isOpen THEN { "other target, menu open" }
    ELSE { "other target, menu closed" }

MenuNext ==
    \/ closeContextMenu /\ UNCHANGED << nodeVars, callCases, promptVars, selectVars, modalVars, extVars >>
    \/ \E target \in EventTargets, p \in ClientPoints :
          /\ handleDoubleClick(target, p[1], p[2])
          /\ callCases' = callCases \cup EventCase(target)
          /\ UNCHANGED << nodeVars, promptVars, selectVars, modalVars, extVars >>
    \/ \E target \in EventTargets, p \in ClientPoints :
          /\ handleGlobalContextMenu(target, p[1], p[2])
          /\ callCases' = callCases \cup EventCase(target)
          /\ UNCHANGED << nodeVars, promptVars, selectVars, modalVars, extVars >>
    \/ \E rect \in ToolbarRects : handleToolbarAdd(rect) /\ UNCHANGED << nodeVars, callCases, promptVars, selectVars, modalVars, extVars >>
    \/ \E nodeId \in Ids, direction \in { "left", "right" }, window \in WindowSizes :
          openConnectorMenu(nodeId, direction, window) /\ UNCHANGED << nodeVars, callCases, promptVars, selectVars, modalVars, extVars >>
    \/ \E p \in ClientPoints, nodeId \in Ids :
          openNodeOptionsMenu(p[1], p[2], nodeId) /\ UNCHANGED << nodeVars, callCases, promptVars, selectVars, modalVars, extVars >>

MenuSpec == Init /\ [][MenuNext]_vars

\* ------------------------------------------------------------------------
\* Specification of menu selection: the controller with its dispatcher
\* ------------------------------------------------------------------------
\* One pointer position, toolbar box, window size and node are enough here:
\* the selection passes the menu state on whatever it holds.
SelectPoints == { << 300, 200 >> }

SelectRects == { << 48, 100 >> }

SelectWindows == { << 800, 600 >> }

SelectIds == { "n1" }

SelectNext ==
    \/ closeContextMenu /\ UNCHANGED << nodeVars, callCases, promptVars, selectVars, modalVars, extVars >>
    \/ \E target \in EventTargets, p \in SelectPoints :
          /\ handleDoubleClick(target, p[1], p[2])
          /\ UNCHANGED << nodeVars, callCases, promptVars, selectVars, modalVars, extVars >>
    \/ \E target \in EventTargets, p \in SelectPoints :
          /\ handleGlobalContextMenu(target, p[1], p[2])
          /\ UNCHANGED << nodeVars, callCases, promptVars, selectVars, modalVars, extVars >>
    \/ \E rect \in SelectRects :
          handleToolbarAdd(rect) /\ UNCHANGED << nodeVars, callCases, promptVars, selectVars, modalVars, extVars >>
    \/ \E nodeId \in SelectIds, direction \in { "left", "right" }, window \in SelectWindows :
          /\ openConnectorMenu(nodeId, direction, window)
          /\ UNCHANGED << nodeVars, callCases, promptVars, selectVars, modalVars, extVars >>
    \/ \E p \in SelectPoints, nodeId \in SelectIds :
          /\ openNodeOptionsMenu(p[1], p[2], nodeId)
          /\ UNCHANGED << nodeVars, callCases, promptVars, selectVars, modalVars, extVars >>
    \/ \E choice \in MenuChoices :
          /\ dispatchCalls < MaxSelects
          /\ handleContextMenuSelect(choice)
          /\ UNCHANGED << nodeVars, callCases, promptVars, modalVars, extVars >>
    \/ \E view \in Viewports :
          setViewport(view) /\ UNCHANGED << nodeVars, callCases, promptVars, modalVars, extVars >>

SelectSpec == Init /\ [][SelectNext]_vars

\* ------------------------------------------------------------------------
\* TwitterPostModal and the server routes it talks to
\* ------------------------------------------------------------------------
\* The user the server stores with a session: the X account that signed in.
UserOf(session) == [ id |-> "42", username |-> "alice", name |-> "Alice" ]

\* White space as String.prototype.trim sees it.
IsSpace(c) == c \in { " ", "\n", "\t" }

RECURSIVE TrimStart(_)
TrimStart(text) ==
    IF Len(text) > 0 /\ IsSpace(Head(text)) THEN TrimStart(Tail(text)) ELSE text

RECURSIVE TrimEnd(_)
TrimEnd(text) ==
    IF Len(text) > 0 /\ IsSpace(text[Len(text)])
    THEN TrimEnd(SubSeq(text, 1, Len(text) - 1))
    ELSE text

\* text.trim()
Trim(text) == TrimEnd(TrimStart(text))

\* MAX_CHARS - tweetText.length < 0
isOverLimit == MAX_CHARS - Len(tweetText) < 0

\* The compose view is rendered: user && status !== 'success'.
ComposeView == isOpen /\ user # NullUser /\ status # "success"

\* The sign-in view is rendered: !user && status !== 'authenticating'.
SignInView == isOpen /\ user = NullUser /\ status # "authenticating"

\* The session id of the next session the server creates.
NewSession == { id \in Sessions : id = "s" \o ToString(Cardinality(everSessions) + 1) }

\* The parent opens the modal; the effect on isOpen loads the stored session
\* and starts checkAuthStatus for it.
openModal ==
    /\ ~isOpen
    /\ isOpen' = TRUE
    /\ IF localStorage # Null
       THEN /\ checksSent < MaxChecks
            /\ sessionId' = localStorage
            /\ checksSent' = checksSent + 1
            /\ statusChecks' = statusChecks \cup
                  { [ id |-> checksSent + 1, session |-> localStorage,
                      reply |-> "pending" ] }
       ELSE UNCHANGED << sessionId, checksSent, statusChecks >>
    /\ UNCHANGED << tweetText, status, error, tweetUrl, user, localStorage,
                    serverSessions, everSessions, popupOpen, logoutCall, postInFlight,
                    established, everSignedOut >>

\* A gesture calls onClose and the parent closes the modal; the effect on
\* isOpen resets the compose state. The backdrop and the two buttons do not
\* call onClose while status is 'posting'; handleKeyDown has no such test.
closeModal(gesture) ==
    /\ isOpen
    /\ gesture = "escape" \/ status # "posting"
    /\ isOpen' = FALSE
    /\ tweetText' = << >>
    /\ status' = "idle"
    /\ error' = Null
    /\ tweetUrl' = Null
    /\ UNCHANGED << user, sessionId, localStorage, serverSessions, everSessions,
                    statusChecks, checksSent, popupOpen, logoutCall, postInFlight,
                    established, everSignedOut >>

\* GET /status answers a pending check from the session store.
serveStatus(check) ==
    /\ check \in statusChecks
    /\ check.reply = "pending"
    /\ statusChecks' = (statusChecks \ { check }) \cup
          { [ check EXCEPT !.reply = IF check.session \in serverSessions
                                     THEN "authenticated"
                                     ELSE "unauthenticated" ] }
    /\ UNCHANGED << isOpen, tweetText, status, error, tweetUrl, user, sessionId,
                    localStorage, serverSessions, everSessions, checksSent, popupOpen,
                    logoutCall, postInFlight, established, everSignedOut >>

\* The fetch of a check fails: the catch block only logs.
failStatus(check) ==
    /\ check \in statusChecks
    /\ statusChecks' = statusChecks \ { check }
    /\ UNCHANGED << isOpen, tweetText, status, error, tweetUrl, user, sessionId,
                    localStorage, serverSessions, everSessions, checksSent, popupOpen,
                    logoutCall, postInFlight, established, everSignedOut >>

\* checkAuthStatus continues after its awaits with the server's answer.
checkAuthStatus(check) ==
    /\ check \in statusChecks
    /\ check.reply # "pending"
    /\ statusChecks' = statusChecks \ { check }
    /\ IF check.reply = "authenticated"
       THEN /\ user' = UserOf(check.session)
            /\ UNCHANGED << localStorage, sessionId >>
       ELSE /\ localStorage' = Null
            /\ sessionId' = Null
            /\ user' = NullUser
    /\ UNCHANGED << isOpen, tweetText, status, error, tweetUrl, serverSessions,
                    everSessions, checksSent, popupOpen, logoutCall, postInFlight,
                    established, everSignedOut >>

\* handleLogin: the auth request succeeds and window.open shows the OAuth page
\* in the window named 'Twitter Login' (one window, reused when it is open), or
\* the request fails or the popup is blocked.
handleLogin(popupOpens) ==
    /\ SignInView
    /\ IF popupOpens
       THEN /\ Cardinality(everSessions) < MaxSessions
            /\ status' = "authenticating"
            /\ error' = Null
            /\ popupOpen' = TRUE
       ELSE /\ status' = "error"
            /\ error' = "Failed to start authentication"
            /\ UNCHANGED popupOpen
    /\ UNCHANGED << isOpen, tweetText, tweetUrl, user, sessionId, localStorage,
                    serverSessions, everSessions, statusChecks, checksSent,
                    logoutCall, postInFlight, established, everSignedOut >>

\* GET /callback creates the session and posts twitter-auth-success to the
\* opener, whose handleMessage stores the session.
authSuccess ==
    /\ popupOpen
    /\ \E newSessionId \in NewSession :
          /\ serverSessions' = serverSessions \cup { newSessionId }
          /\ everSessions' = everSessions \cup { newSessionId }
          /\ sessionId' = newSessionId
          /\ user' = UserOf(newSessionId)
          /\ localStorage' = newSessionId
          /\ established' = newSessionId
    /\ status' = "idle"
    /\ error' = Null
    /\ popupOpen' = FALSE
    /\ UNCHANGED << isOpen, tweetText, tweetUrl, statusChecks, checksSent,
                    logoutCall, postInFlight, everSignedOut >>

\* GET /callback posts twitter-auth-error; handleMessage shows it.
authError ==
    /\ popupOpen
    /\ error' = "Authentication failed"
    /\ status' = "error"
    /\ popupOpen' = FALSE
    /\ UNCHANGED << isOpen, tweetText, tweetUrl, user, sessionId, localStorage,
                    serverSessions, everSessions, statusChecks, checksSent,
                    logoutCall, postInFlight, established, everSignedOut >>

\* handleLogout up to its await: with a session it sends POST /logout and
\* suspends; without one it clears the local state at once.
handleLogout ==
    /\ ComposeView
    /\ logoutCall = NoLogout
    /\ everSignedOut' = TRUE
    /\ IF sessionId # Null
       THEN /\ logoutCall' = [ phase |-> "sent", session |-> sessionId ]
            /\ UNCHANGED << localStorage, sessionId, user >>
       ELSE /\ localStorage' = Null
            /\ sessionId' = Null
            /\ user' = NullUser
            /\ UNCHANGED logoutCall
    /\ UNCHANGED << isOpen, tweetText, status, error, tweetUrl, serverSessions,
                    everSessions, statusChecks, checksSent, popupOpen, postInFlight,
                    established >>

\* POST /logout clears the session, or the request fails on the way.
serveLogout(arrives) ==
    /\ logoutCall.phase = "sent"
    /\ logoutCall' = [ logoutCall EXCEPT !.phase = "answered" ]
    /\ serverSessions' = IF arrives THEN serverSessions \ { logoutCall.session }
                         ELSE serverSessions
    /\ UNCHANGED << isOpen, tweetText, status, error, tweetUrl, user, sessionId,
                    localStorage, everSessions, statusChecks, checksSent, popupOpen,
                    postInFlight, established, everSignedOut >>

\* handleLogout after its await: the local session is cleared.
finishLogout ==
    /\ logoutCall.phase = "answered"
    /\ logoutCall' = NoLogout
    /\ localStorage' = Null
    /\ sessionId' = Null
    /\ user' = NullUser
    /\ UNCHANGED << isOpen, tweetText, status, error, tweetUrl, serverSessions,
                    everSessions, statusChecks, checksSent, popupOpen, postInFlight,
                    established, everSignedOut >>

\* The server loses a session: it expires or the server restarts.
sessionExpires(session) ==
    /\ session \in serverSessions
    /\ serverSessions' = serverSessions \ { session }
    /\ UNCHANGED << isOpen, tweetText, status, error, tweetUrl, user, sessionId,
                    localStorage, everSessions, statusChecks, checksSent, popupOpen,
                    logoutCall, postInFlight, established, everSignedOut >>

\* The user types in the textarea of the compose view.
setTweetText(text) ==
    /\ ComposeView
    /\ status # "posting"
    /\ tweetText' = text
    /\ UNCHANGED << isOpen, status, error, tweetUrl, user, sessionId, localStorage,
                    serverSessions, everSessions, statusChecks, checksSent, popupOpen,
                    logoutCall, postInFlight, established, everSignedOut >>

\* handlePost up to its await, called from a Post button that is enabled.
\* mediaUrl is the url of the media the modal was opened for.
handlePost(skipMedia, mediaUrl) ==
    /\ ComposeView
    /\ ~(status = "posting" \/ isOverLimit \/ Trim(tweetText) = << >>)
    /\ skipMedia \/ mediaUrl # Null
    /\ IF sessionId = Null \/ isOverLimit
       THEN UNCHANGED << status, error, postInFlight >>
       ELSE IF ~skipMedia /\ mediaUrl = Null
       THEN UNCHANGED << status, error, postInFlight >>
       ELSE IF Trim(tweetText) = << >>
       THEN /\ error' = "Please enter some text for your post"
            /\ UNCHANGED << status, postInFlight >>
       ELSE /\ ~postInFlight
            /\ status' = "posting"
            /\ error' = Null
            /\ postInFlight' = TRUE
    /\ UNCHANGED << isOpen, tweetText, tweetUrl, user, sessionId, localStorage,
                    serverSessions, everSessions, statusChecks, checksSent, popupOpen,
                    logoutCall, established, everSignedOut >>

\* handlePost after its awaits: the tweet was posted, or the request failed.
finishPost(ok) ==
    /\ postInFlight
    /\ postInFlight' = FALSE
    /\ IF ok
       THEN /\ tweetUrl' = "https://x.com/alice/status/1"
            /\ status' = "success"
            /\ UNCHANGED error
       ELSE /\ error' = "Failed to post tweet"
            /\ status' = "error"
            /\ UNCHANGED tweetUrl
    /\ UNCHANGED << isOpen, tweetText, user, sessionId, localStorage,
                    serverSessions, everSessions, statusChecks, checksSent, popupOpen,
                    logoutCall, established, everSignedOut >>

ModalNext ==
    \/ openModal /\ UNCHANGED << nodeVars, menuVars, callCases, promptVars, selectVars, extVars >>
    \/ \E gesture \in CloseGestures :
          closeModal(gesture)
              /\ UNCHANGED << nodeVars, menuVars, callCases, promptVars, selectVars, extVars >>
    \/ \E check \in statusChecks :
          serveStatus(check)
              /\ UNCHANGED << nodeVars, menuVars, callCases, promptVars, selectVars, extVars >>
    \/ \E check \in statusChecks :
          failStatus(check)
              /\ UNCHANGED << nodeVars, menuVars, callCases, promptVars, selectVars, extVars >>
    \/ \E check \in statusChecks :
          checkAuthStatus(check)
              /\ UNCHANGED << nodeVars, menuVars, callCases, promptVars, selectVars, extVars >>
    \/ \E popupOpens \in BOOLEAN :
          handleLogin(popupOpens)
              /\ UNCHANGED << nodeVars, menuVars, callCases, promptVars, selectVars, extVars >>
    \/ authSuccess /\ UNCHANGED << nodeVars, menuVars, callCases, promptVars, selectVars, extVars >>
    \/ authError /\ UNCHANGED << nodeVars, menuVars, callCases, promptVars, selectVars, extVars >>
    \/ handleLogout /\ UNCHANGED << nodeVars, menuVars, callCases, promptVars, selectVars, extVars >>
    \/ \E arrives \in BOOLEAN :
          serveLogout(arrives)
              /\ UNCHANGED << nodeVars, menuVars, callCases, promptVars, selectVars, extVars >>
    \/ finishLogout /\ UNCHANGED << nodeVars, menuVars, callCases, promptVars, selectVars, extVars >>
    \/ \E session \in Sessions :
          sessionExpires(session)
              /\ UNCHANGED << nodeVars, menuVars, callCases, promptVars, selectVars, extVars >>
    \/ \E text \in TweetTexts :
          setTweetText(text)
              /\ UNCHANGED << nodeVars, menuVars, callCases, promptVars, selectVars, extVars >>
    \/ \E skipMedia \in BOOLEAN :
          handlePost(skipMedia, "/library/images/a.png")
              /\ UNCHANGED << nodeVars, menuVars, callCases, promptVars, selectVars, extVars >>
    \/ \E ok \in BOOLEAN :
          finishPost(ok)
              /\ UNCHANGED << nodeVars, menuVars, callCases, promptVars, selectVars, extVars >>

ModalSpec == Init /\ [][ModalNext]_vars

\* The fetch of a handlePost call settles: it is answered or it fails.
ModalFairSpec == ModalSpec /\ WF_modalVars(\E ok \in BOOLEAN : finishPost(ok))

\* ------------------------------------------------------------------------
\* POST /post and the requests it gets
\* ------------------------------------------------------------------------
\* The body handlePost builds.
PostBody(skipMedia, mediaUrl) ==
    IF ~skipMedia /\ mediaUrl # Null
    THEN [ text |-> Trim(tweetText), mediaUrl |-> mediaUrl, mediaType |-> MediaType ]
    ELSE [ text |-> Trim(tweetText) ]

\* The request handlePost sends with fetch.
PostRequest(skipMedia, mediaUrl) ==
    [ headers |-> ("content-type" :> "application/json")
                    @@ ("x-twitter-session" :> sessionId),
      body |-> PostBody(skipMedia, mediaUrl) ]

\* Requests any client can send to the route.
DirectRequests ==
    LET headers == { ("content-type" :> "application/json") }
                   \cup { ("content-type" :> "application/json")
                            @@ ("x-twitter-session" :> v) : v \in HeaderValues }
        bodies == { [ mediaUrl |-> "/library/images/a.png", mediaType |-> MediaType ] }
                  \cup { [ text |-> t ] : t \in PostTexts }
                  \cup { [ text |-> t, mediaUrl |-> "/library/images/a.png",
                           mediaType |-> MediaType ] : t \in { Letters(280), Letters(281) } }
    IN  { [ headers |-> h, body |-> b ] : h \in headers, b \in bodies }

\* The status the catch block of the route answers an error with.
ErrorStatus(code) == IF code \in { 401, 403, 429 } THEN code ELSE 500

ErrorMessage(code) ==
    IF code = 401 THEN "Session expired. Please login again."
    ELSE IF code = 403 THEN "Permission denied. Check your Twitter app permissions."
    ELSE IF code = 429 THEN "Rate limit exceeded. Please try again later."
    ELSE "Failed to post tweet"

\* The route with the limit tested on the trimmed text.
postRoute_TrimmedLength(req, uploadError, tweetError) ==
    LET hasSession == /\ "x-twitter-session" \in DOMAIN req.headers
                      /\ req.headers["x-twitter-session"] # ""
        hasText == "text" \in DOMAIN req.body /\ Len(req.body.text) # 0
        hasMedia == "mediaUrl" \in DOMAIN req.body /\ "mediaType" \in DOMAIN req.body
    IN
    IF ~hasSession
    THEN [ status |-> 401, error |-> "Not authenticated. Please login first.",
           uploaded |-> FALSE, posted |-> FALSE ]
    ELSE IF ~hasText \/ Len(Trim(req.body.text)) = 0
    THEN [ status |-> 400, error |-> "Tweet text is required",
           uploaded |-> FALSE, posted |-> FALSE ]
    ELSE IF Len(Trim(req.body.text)) > 280
    THEN [ status |-> 400, error |-> "Tweet exceeds 280 character limit",
           uploaded |-> FALSE, posted |-> FALSE ]
    ELSE IF hasMedia /\ uploadError # 0
    THEN [ status |-> ErrorStatus(uploadError), error |-> ErrorMessage(uploadError),
           uploaded |-> TRUE, posted |-> FALSE ]
    ELSE IF tweetError # 0
    THEN [ status |-> ErrorStatus(tweetError), error |-> ErrorMessage(tweetError),
           uploaded |-> hasMedia, posted |-> TRUE ]
    ELSE [ status |-> 200, error |-> Null, uploaded |-> hasMedia, posted |-> TRUE ]

\* router.post('/post'): the answer to a request, and whether
\* uploadMediaFromUrl and postTweet were called on the way. uploadError and
\* tweetError are what the two calls do when they are made.
postRoute(req, uploadError, tweetError) ==
    LET hasSession == /\ "x-twitter-session" \in DOMAIN req.headers
                      /\ req.headers["x-twitter-session"] # ""
        hasText == "text" \in DOMAIN req.body /\ Len(req.body.text) # 0
        hasMedia == "mediaUrl" \in DOMAIN req.body /\ "mediaType" \in DOMAIN req.body
    IN
    IF ~hasSession
    THEN [ status |-> 401, error |-> "Not authenticated. Please login first.",
           uploaded |-> FALSE, posted |-> FALSE ]
    ELSE IF ~hasText \/ Len(Trim(req.body.text)) = 0
    THEN [ status |-> 400, error |-> "Tweet text is required",
           uploaded |-> FALSE, posted |-> FALSE ]
    ELSE IF Len(req.body.text) > 280
    THEN [ status |-> 400, error |-> "Tweet exceeds 280 character limit",
           uploaded |-> FALSE, posted |-> FALSE ]
    ELSE IF hasMedia /\ uploadError # 0
    THEN [ status |-> ErrorStatus(uploadError), error |-> ErrorMessage(uploadError),
           uploaded |-> TRUE, posted |-> FALSE ]
    ELSE IF tweetError # 0
    THEN [ status |-> ErrorStatus(tweetError), error |-> ErrorMessage(tweetError),
           uploaded |-> hasMedia, posted |-> TRUE ]
    ELSE [ status |-> 200, error |-> Null, uploaded |-> hasMedia, posted |-> TRUE ]

\* The server handles one request and answers it.
handleRequest(req, from, uploadError, tweetError) ==
    LET res == postRoute(req, uploadError, tweetError) IN
    /\ lastRoute.count < MaxPosts
    /\ lastRoute' = [ count |-> lastRoute.count + 1, from |-> from,
                       request |-> req, result |-> res ]
    /\ uploads' = uploads + (IF res.uploaded THEN 1 ELSE 0)
    /\ tweets' = tweets + (IF res.posted THEN 1 ELSE 0)

\* The request of the modal reaches the server and is answered.
servePost(uploadError, tweetError) ==
    /\ postRequest # NoRequest
    /\ postRequest.answer = NoAnswer
    /\ handleRequest(postRequest.request, "modal", uploadError, tweetError)
    /\ postRequest' = [ postRequest EXCEPT !.answer = lastRoute'.result.status ]

\* Another client sends a request to the route.
directPost(req, uploadError, tweetError) ==
    /\ handleRequest(req, "direct", uploadError, tweetError)
    /\ UNCHANGED postRequest

\* The modal, opened once and signed in, posting; and the route serving its
\* requests and those of other clients.
PostNext ==
    \/ openModal /\ UNCHANGED << nodeVars, menuVars, callCases, promptVars, selectVars, extVars >>
    \/ handleLogin(TRUE)
          /\ UNCHANGED << nodeVars, menuVars, callCases, promptVars, selectVars, extVars >>
    \/ authSuccess /\ UNCHANGED << nodeVars, menuVars, callCases, promptVars, selectVars, extVars >>
    \/ \E text \in PostTexts :
          setTweetText(text)
              /\ UNCHANGED << nodeVars, menuVars, callCases, promptVars, selectVars, extVars >>
    \/ \E skipMedia \in BOOLEAN, mediaUrl \in MediaUrls :
          /\ handlePost(skipMedia, mediaUrl)
          /\ postRequest' = IF postInFlight' /\ ~postInFlight
                             THEN [ request |-> PostRequest(skipMedia, mediaUrl),
                                    answer |-> NoAnswer ]
                             ELSE postRequest
          /\ UNCHANGED << nodeVars, menuVars, callCases, promptVars, selectVars,
                          frameVars, faceVars, lastRoute, uploads, tweets >>
    \/ \E o \in Outcomes :
          /\ servePost(o[1], o[2])
          /\ UNCHANGED << nodeVars, menuVars, callCases, promptVars, selectVars,
                          modalVars, frameVars, faceVars >>
    \/ \E ok \in BOOLEAN :
          /\ postRequest # NoRequest
          /\ ok = (postRequest.answer = 200)
          /\ finishPost(ok)
          /\ postRequest' = NoRequest
          /\ UNCHANGED << nodeVars, menuVars, callCases, promptVars, selectVars,
                          frameVars, faceVars, lastRoute, uploads, tweets >>
    \/ \E req \in DirectRequests, o \in Outcomes :
          /\ directPost(req, o[1], o[2])
          /\ UNCHANGED << nodeVars, menuVars, callCases, promptVars, selectVars,
                          modalVars, frameVars, faceVars >>

PostSpec == Init /\ [][PostNext]_vars

\* ------------------------------------------------------------------------
\* useFaceDetection
\* ------------------------------------------------------------------------
\* setIsModelLoaded / setIsLoading of an instance: a state update of a
\* component that was unmounted is dropped.
setHook(h, field, value) ==
    IF hooks[h].phase = "gone" THEN hooks
    ELSE IF field = "isModelLoaded" THEN [ hooks EXCEPT ![h].isModelLoaded = value ]
    ELSE [ hooks EXCEPT ![h].isLoading = value ]

\* An instance renders for the first time: useState(modelsLoaded) reads the
\* module-level flag; its effect has not run yet. Instances mount in order.
mount(h) ==
    /\ hooks[h].phase = "absent"
    /\ \A g \in Hooks : g < h => hooks[g].phase # "absent"
    /\ hooks' = [ hooks EXCEPT ![h] = [ phase |-> "rendered",
                                        isModelLoaded |-> modelsLoaded,
                                        isLoading |-> FALSE ] ]
    /\ UNCHANGED << modelsLoaded, modelsLoading, loadsInFlight, loadsStarted,
                    loadsFailed, detecting, detectCalls, lastDetect >>

\* loadModels that starts the load without raising modelsLoading.
loadModels_NoFlag(h) ==
    /\ hooks[h].phase = "rendered"
    /\ IF modelsLoaded \/ modelsLoading
       THEN /\ hooks' = [ (IF modelsLoaded THEN setHook(h, "isModelLoaded", TRUE)
                            ELSE hooks) EXCEPT ![h].phase = "mounted" ]
            /\ UNCHANGED << modelsLoading, loadsInFlight, loadsStarted >>
       ELSE /\ UNCHANGED modelsLoading
            /\ loadsInFlight' = loadsInFlight \cup { h }
            /\ loadsStarted' = loadsStarted + 1
            /\ hooks' = [ hooks EXCEPT ![h].phase = "mounted" ]
    /\ UNCHANGED << modelsLoaded, loadsFailed, detecting, detectCalls, lastDetect >>

\* The mount effect: loadModels up to its await.
loadModels(h) ==
    /\ hooks[h].phase = "rendered"
    /\ IF modelsLoaded \/ modelsLoading
       THEN /\ hooks' = [ (IF modelsLoaded THEN setHook(h, "isModelLoaded", TRUE)
                            ELSE hooks) EXCEPT ![h].phase = "mounted" ]
            /\ UNCHANGED << modelsLoading, loadsInFlight, loadsStarted >>
       ELSE /\ modelsLoading' = TRUE
            /\ loadsInFlight' = loadsInFlight \cup { h }
            /\ loadsStarted' = loadsStarted + 1
            /\ hooks' = [ hooks EXCEPT ![h].phase = "mounted" ]
    /\ UNCHANGED << modelsLoaded, loadsFailed, detecting, detectCalls, lastDetect >>

\* loadModels after its await, the models loaded.
loadSucceeds(h) ==
    /\ h \in loadsInFlight
    /\ loadsInFlight' = loadsInFlight \ { h }
    /\ modelsLoaded' = TRUE
    /\ modelsLoading' = FALSE
    /\ hooks' = setHook(h, "isModelLoaded", TRUE)
    /\ UNCHANGED << loadsStarted, loadsFailed, detecting, detectCalls, lastDetect >>

\* loadModels after its await, loadFromUri rejected: the catch block.
loadFails(h) ==
    /\ h \in loadsInFlight
    /\ loadsInFlight' = loadsInFlight \ { h }
    /\ modelsLoading' = FALSE
    /\ loadsFailed' = loadsFailed + 1
    /\ UNCHANGED << modelsLoaded, hooks, loadsStarted, detecting, detectCalls,
                    lastDetect >>

\* The component that uses the instance is unmounted.
unmount(h) ==
    /\ hooks[h].phase = "mounted"
    /\ hooks' = [ hooks EXCEPT ![h].phase = "gone" ]
    /\ UNCHANGED << modelsLoaded, modelsLoading, loadsInFlight, loadsStarted,
                    loadsFailed, detecting, detectCalls, lastDetect >>

\* detectFaces up to its first await: without the models it returns [] at
\* once, with them it raises isLoading and starts loading the image.
detectFaces(h) ==
    /\ hooks[h].phase \in { "rendered", "mounted" }
    /\ detectCalls[h] < MaxDetects
    /\ detectCalls' = [ detectCalls EXCEPT ![h] = @ + 1 ]
    /\ IF ~modelsLoaded
       THEN /\ UNCHANGED << hooks, detecting >>
       ELSE /\ hooks' = setHook(h, "isLoading", TRUE)
            /\ detecting' = [ detecting EXCEPT ![h] = @ + 1 ]
    /\ lastDetect' = [ hook |-> h, passed |-> modelsLoaded,
                        before |-> hooks[h].isLoading, after |-> hooks'[h].isLoading,
                        returned |-> IF modelsLoaded THEN "pending" ELSE "empty" ]
    /\ UNCHANGED << modelsLoaded, modelsLoading, loadsInFlight, loadsStarted,
                    loadsFailed >>

\* detectFaces after its awaits: the faces were detected (ok), or the image
\* or the detection failed; both paths lower isLoading.
finishDetect(h, ok) ==
    /\ detecting[h] > 0
    /\ detecting' = [ detecting EXCEPT ![h] = @ - 1 ]
    /\ hooks' = setHook(h, "isLoading", FALSE)
    /\ lastDetect' = [ hook |-> h, passed |-> TRUE,
                        before |-> hooks[h].isLoading, after |-> hooks'[h].isLoading,
                        returned |-> IF ok THEN "faces" ELSE "empty" ]
    /\ UNCHANGED << modelsLoaded, modelsLoading, loadsInFlight, loadsStarted,
                    loadsFailed, detectCalls >>

\* Instances mounting and unmounting while the shared load runs.
FaceNext ==
    \/ \E h \in Hooks :
          mount(h) /\ UNCHANGED << nodeVars, menuVars, callCases, promptVars, selectVars,
                                   modalVars, frameVars, routeVars >>
    \/ \E h \in Hooks :
          loadModels(h) /\ UNCHANGED << nodeVars, menuVars, callCases, promptVars,
                                        selectVars, modalVars, frameVars, routeVars >>
    \/ \E h \in Hooks :
          loadSucceeds(h) /\ UNCHANGED << nodeVars, menuVars, callCases, promptVars,
                                          selectVars, modalVars, frameVars, routeVars >>
    \/ \E h \in Hooks :
          loadFails(h) /\ UNCHANGED << nodeVars, menuVars, callCases, promptVars,
                                       selectVars, modalVars, frameVars, routeVars >>
    \/ \E h \in Hooks :
          unmount(h) /\ UNCHANGED << nodeVars, menuVars, callCases, promptVars,
                                     selectVars, modalVars, frameVars, routeVars >>

FaceSpec == Init /\ [][FaceNext]_vars

\* Effects of rendered components run, and a loadFromUri promise settles.
FaceFairSpec ==
    /\ FaceSpec
    /\ \A h \in Hooks : WF_faceVars(loadModels(h))
    /\ \A h \in Hooks : WF_faceVars(loadSucceeds(h) \/ loadFails(h))

\* Instances that stay mounted, with detectFaces calls on them.
DetectNext ==
    \/ \E h \in Hooks :
          mount(h) /\ UNCHANGED << nodeVars, menuVars, callCases, promptVars, selectVars,
                                   modalVars, frameVars, routeVars >>
    \/ \E h \in Hooks :
          loadModels(h) /\ UNCHANGED << nodeVars, menuVars, callCases, promptVars,
                                        selectVars, modalVars, frameVars, routeVars >>
    \/ \E h \in Hooks :
          loadSucceeds(h) /\ UNCHANGED << nodeVars, menuVars, callCases, promptVars,
                                          selectVars, modalVars, frameVars, routeVars >>
    \/ \E h \in Hooks :
          loadFails(h) /\ UNCHANGED << nodeVars, menuVars, callCases, promptVars,
                                       selectVars, modalVars, frameVars, routeVars >>
    \/ \E h \in Hooks :
          detectFaces(h) /\ UNCHANGED << nodeVars, menuVars, callCases, promptVars,
                                         selectVars, modalVars, frameVars, routeVars >>
    \/ \E h \in Hooks, ok \in BOOLEAN :
          finishDetect(h, ok) /\ UNCHANGED << nodeVars, menuVars, callCases, promptVars,
                                              selectVars, modalVars, frameVars, routeVars >>

DetectSpec == Init /\ [][DetectNext]_vars

\* ------------------------------------------------------------------------
\* Specification of buildAnglePrompt as a function of its argument
\* ------------------------------------------------------------------------
\* The canvas is as constructed; the argument is any value of the input set.
PromptInit ==
    /\ nodes = << >>
    /\ selectedNodeIds = << >>
    /\ rafCallbacks = << >>
    /\ generated = << >>
    /\ everIds = {}
    /\ derivedFrom = << >>
    /\ framesSince = << >>
    /\ callCases = {}
    /\ contextMenu = [ isOpen |-> FALSE, x |-> 0, y |-> 0, type |-> "global",
                       sourceNodeId |-> Undefined, connectorSide |-> Undefined ]
    /\ lastOpen = NoOpen
    /\ prevMenu = contextMenu
    /\ promptInput \in AngleSettingsValues
    /\ promptParts = << >>
    /\ promptOutput = Undefined
    /\ viewport = [ panX |-> 0, panY |-> 0, zoom |-> 1 ]
    /\ dispatchCalls = 0
    /\ lastDispatch = NoDispatch
    /\ ModalInit
    /\ ExtInit

\* One call of buildAnglePrompt(promptInput), from the empty parts array to the
\* returned join.
callBuildAnglePrompt ==
    /\ promptOutput = Undefined
    /\ promptParts' = AnglePromptParts(promptInput)
    /\ promptOutput' = buildAnglePrompt(promptInput)
    /\ UNCHANGED promptInput

PromptNext ==
    callBuildAnglePrompt
        /\ UNCHANGED << nodeVars, menuVars, callCases, selectVars, modalVars, extVars >>

PromptSpec == PromptInit /\ [][PromptNext]_vars

\* ------------------------------------------------------------------------
\* Specification of the derivation engine and its generation trigger
\* ------------------------------------------------------------------------
Next ==
    \/ \E root \in RootNodes : createNode(root) /\ UNCHANGED << menuVars, callCases, promptVars, selectVars, modalVars, extVars >>
    \/ \E nodeId \in Ids : deleteNode(nodeId) /\ UNCHANGED << menuVars, callCases, promptVars, selectVars, modalVars, extVars >>
    \/ \E nodeId \in Ids, settings \in PanelSettings :
          onSettingsChange(nodeId, settings) /\ UNCHANGED << menuVars, callCases, promptVars, selectVars, modalVars, extVars >>
    \/ \E nodeId \in CallIds : handleImageToImage(nodeId) /\ UNCHANGED << menuVars, callCases, promptVars, selectVars, modalVars, extVars >>
    \/ \E nodeId \in CallIds : handleImageToVideo(nodeId) /\ UNCHANGED << menuVars, callCases, promptVars, selectVars, modalVars, extVars >>
    \/ \E nodeId \in CallIds, onGenerateNode \in BOOLEAN :
          handleChangeAngleGenerate(nodeId, onGenerateNode) /\ UNCHANGED << menuVars, callCases, promptVars, selectVars, modalVars, extVars >>
    \/ animationFrame /\ UNCHANGED << menuVars, callCases, promptVars, selectVars, modalVars, extVars >>

Spec == Init /\ [][Next]_vars

\* The scheduler keeps running animation frames while callbacks are pending.
FairSpec == Spec /\ WF_nodeVars(animationFrame)

\* ------------------------------------------------------------------------
\* The same machine with the special cases of its calls recorded
\* ------------------------------------------------------------------------
\* The case of a handler call, from the store it is called on and its inputs:
\* the id is the id of no store node; the angle handler is called on a node
\* without angleSettings; the angle handler is called on a node with
\* angleSettings but without the onGenerateNode callback.
CallCase(nodeId, isAngle, onGenerateNode) ==
    IF nodeId \notin NodeIds(nodes) THEN { "missing source" }
    ELSE IF isAngle
            /\ \A i \in 1 .. Len(nodes) :
                  nodes[i].id = nodeId => nodes[i].angleSettings = UndefinedObject
         THEN { "missing angleSettings" }
         ELSE IF isAngle /\ ~onGenerateNode THEN { "no trigger" }
         ELSE {}

\* One root template is enough to reach every case of a call.
GuardRoots == { << "IMAGE", 0, 0, Undefined, "2K" >> }

GuardNext ==
    \/ \E root \in GuardRoots : createNode(root) /\ UNCHANGED << menuVars, callCases, promptVars, selectVars, modalVars, extVars >>
    \/ \E nodeId \in Ids : deleteNode(nodeId) /\ UNCHANGED << menuVars, callCases, promptVars, selectVars, modalVars, extVars >>
    \/ \E nodeId \in Ids, settings \in PanelSettings :
          onSettingsChange(nodeId, settings) /\ UNCHANGED << menuVars, callCases, promptVars, selectVars, modalVars, extVars >>
    \/ \E nodeId \in CallIds :
          /\ handleImageToImage(nodeId)
          /\ callCases' = callCases \cup CallCase(nodeId, FALSE, FALSE)
          /\ UNCHANGED << menuVars, promptVars, selectVars, modalVars, extVars >>
    \/ \E nodeId \in CallIds :
          /\ handleImageToVideo(nodeId)
          /\ callCases' = callCases \cup CallCase(nodeId, FALSE, FALSE)
          /\ UNCHANGED << menuVars, promptVars, selectVars, modalVars, extVars >>
    \/ \E nodeId \in CallIds, onGenerateNode \in BOOLEAN :
          /\ handleChangeAngleGenerate(nodeId, onGenerateNode)
          /\ callCases' = callCases \cup CallCase(nodeId, TRUE, onGenerateNode)
          /\ UNCHANGED << menuVars, promptVars, selectVars, modalVars, extVars >>
    \/ animationFrame /\ UNCHANGED << menuVars, callCases, promptVars, selectVars, modalVars, extVars >>

GuardSpec == Init /\ [][GuardNext]_vars

\* The node of the store with the given id (ids are unique in the store).
NodeOf(ns, id) == ns[CHOOSE i \in 1 .. Len(ns) : ns[i].id = id]

\* The last node of a store.
Last(ns) == ns[Len(ns)]

\* ------------------------------------------------------------------------
\* The handlers with a reader that holds the store of before each write
\* ------------------------------------------------------------------------
\* The hook is rendered without the onGenerateNode callback here, and no node
\* is deleted: the store writes are the subject.
FrameNext ==
    \/ \E root \in RootNodes : createNode(root) /\ UNCHANGED << menuVars, callCases, promptVars, selectVars, modalVars, extVars >>
    \/ \E nodeId \in Ids, settings \in PanelSettings :
          onSettingsChange(nodeId, settings) /\ UNCHANGED << menuVars, callCases, promptVars, selectVars, modalVars, extVars >>
    \/ \E nodeId \in CallIds :
          /\ handleImageToImage(nodeId)
          /\ snapshot' = IF nodes' = nodes THEN snapshot
                          ELSE PrevAfterAppend(nodes, Last(nodes'))
          /\ UNCHANGED << menuVars, callCases, promptVars, selectVars, modalVars,
                          faceVars, routeVars >>
    \/ \E nodeId \in CallIds :
          /\ handleImageToVideo(nodeId)
          /\ snapshot' = IF nodes' = nodes THEN snapshot
                          ELSE PrevAfterAppend(nodes, Last(nodes'))
          /\ UNCHANGED << menuVars, callCases, promptVars, selectVars, modalVars,
                          faceVars, routeVars >>
    \/ \E nodeId \in CallIds :
          /\ handleChangeAngleGenerate(nodeId, FALSE)
          /\ snapshot' = IF nodes' = nodes THEN snapshot
                          ELSE PrevAfterAngleUpdate(nodes, nodeId, Last(nodes'))
          /\ UNCHANGED << menuVars, callCases, promptVars, selectVars, modalVars,
                          faceVars, routeVars >>

FrameSpec == Init /\ [][FrameNext]_vars

TypeOK ==
    /\ NodeIds(nodes) \subseteq everIds
    /\ everIds \subseteq Ids

\* ------------------------------------------------------------------------
\* Derived notions used by the properties
\* ------------------------------------------------------------------------

\* Number of entries of a sequence of records whose nodeId is id.
CountFor(s, id) == Cardinality({ i \in 1 .. Len(s) : s[i].nodeId = id })

\* The ids reachable from id by following parentIds through store nodes.
RECURSIVE AncestorsWithin(_, _, _)
AncestorsWithin(ns, id, fuel) ==
    IF fuel = 0 \/ id \notin NodeIds(ns) THEN {}
    ELSE LET ps == Range(NodeOf(ns, id).parentIds)
         IN  ps \cup UNION { AncestorsWithin(ns, p, fuel - 1) : p \in ps }

Ancestors(ns, id) == AncestorsWithin(ns, id, Len(ns))

\* The store nodes made by a given handler.
MadeBy(op) ==
    { i \in 1 .. Len(nodes) :
        /\ nodes[i].id \in DOMAIN derivedFrom
        /\ derivedFrom[nodes[i].id].op = op }

\* ------------------------------------------------------------------------
\* C1  handleImageToImage on a source S of the store adds exactly one node N,
\*     last in the store, with parentIds = [S.id], type IMAGE, x = S.x + 440,
\*     y = S.y and an id that no node of the store had.
\* ------------------------------------------------------------------------
C1_ImageToImageAddsChild ==
    [][ \A sid \in NodeIds(nodes) :
          handleImageToImage(sid) =>
            /\ Len(nodes') = Len(nodes) + 1
            /\ SubSeq(nodes', 1, Len(nodes)) = nodes
            /\ Last(nodes').parentIds = << sid >>
            /\ Last(nodes').type = "IMAGE"
            /\ Last(nodes').x = NodeOf(nodes, sid).x + 440
            /\ Last(nodes').y = NodeOf(nodes, sid).y
            /\ Last(nodes').id \notin NodeIds(nodes) ]_vars

C1_Witness ==
    \E i \in MadeBy("handleImageToImage") :
        /\ derivedFrom[nodes[i].id].source \in NodeIds(nodes)
        /\ nodes[i].x = NodeOf(nodes, derivedFrom[nodes[i].id].source).x + 440

\* ------------------------------------------------------------------------
\* C2  handleImageToVideo on a source S of the store adds exactly one node N,
\*     last in the store, with type VIDEO, parentIds = [S.id], x = S.x + 440,
\*     y = S.y and an id that no node of the store had.
\* ------------------------------------------------------------------------
C2_ImageToVideoAddsChild ==
    [][ \A sid \in NodeIds(nodes) :
          handleImageToVideo(sid) =>
            /\ Len(nodes') = Len(nodes) + 1
            /\ SubSeq(nodes', 1, Len(nodes)) = nodes
            /\ Last(nodes').type = "VIDEO"
            /\ Last(nodes').parentIds = << sid >>
            /\ Last(nodes').x = NodeOf(nodes, sid).x + 440
            /\ Last(nodes').y = NodeOf(nodes, sid).y
            /\ Last(nodes').id \notin NodeIds(nodes) ]_vars

C2_Witness ==
    \E i \in MadeBy("handleImageToVideo") :
        /\ nodes[i].type = "VIDEO"
        /\ derivedFrom[nodes[i].id].source \in NodeIds(nodes)

\* ------------------------------------------------------------------------
\* C3  A derivation handler called with an id that no store node has leaves
\*     the store and the selection unchanged and schedules nothing.
\* ------------------------------------------------------------------------
C3_MissingSourceIsNoOp ==
    [][ \A nodeId \in CallIds \ NodeIds(nodes) :
          ( \/ handleImageToImage(nodeId)
            \/ handleImageToVideo(nodeId)
            \/ \E t \in BOOLEAN : handleChangeAngleGenerate(nodeId, t) )
          => UNCHANGED << nodes, selectedNodeIds, rafCallbacks, generated >> ]_vars

C3_Witness ==
    /\ "missing source" \in callCases
    /\ nodes # << >>
    /\ everIds # NodeIds(nodes)

\* ------------------------------------------------------------------------
\* C4  Every parentIds entry of every store node is the id of a node that is
\*     or once was in the store.
\* ------------------------------------------------------------------------
C4_ParentIdsWereStoreNodes ==
    \A i \in 1 .. Len(nodes) : Range(nodes[i].parentIds) \subseteq everIds

C4_Witness ==
    \E i \in 1 .. Len(nodes) :
        /\ nodes[i].parentIds # << >>
        /\ nodes[i].parentIds[1] \in everIds \ NodeIds(nodes)

\* ------------------------------------------------------------------------
\* C5  Every store node made by a derivation handler carries
\*     parentIds = [source id]: no state shows a derived child without its
\*     parent link.
\* ------------------------------------------------------------------------
C5_ChildLinkedWhenAdded ==
    \A i \in 1 .. Len(nodes) :
        nodes[i].id \in DOMAIN derivedFrom
            => nodes[i].parentIds = << derivedFrom[nodes[i].id].source >>

C5_Witness ==
    \E i \in MadeBy("handleChangeAngleGenerate") :
        nodes[i].parentIds = << derivedFrom[nodes[i].id].source >>

\* ------------------------------------------------------------------------
\* C6  The parentIds relation of the store never has a cycle: no node is its
\*     own ancestor.
\* ------------------------------------------------------------------------
C6_NoCycle ==
    \A i \in 1 .. Len(nodes) : nodes[i].id \notin Ancestors(nodes, nodes[i].id)

C6_Witness ==
    \E i \in 1 .. Len(nodes) :
        /\ Cardinality(Ancestors(nodes, nodes[i].id)) >= 2
        /\ Ancestors(nodes, nodes[i].id) \subseteq NodeIds(nodes)

\* ------------------------------------------------------------------------
\* C8  (as claimed) Every invocation of the trigger finds its node in the
\*     store, and each scheduled generation is invoked exactly once.
\* ------------------------------------------------------------------------
C8_TriggerFindsNode ==
    /\ \A k \in 1 .. Len(generated) : generated[k].present
    /\ \A id \in DOMAIN derivedFrom :
          derivedFrom[id].trigger
              => CountFor(generated, id) + CountFor(rafCallbacks, id) = 1

\* ------------------------------------------------------------------------
\* C8  (amended) For every successful handleChangeAngleGenerate call with a
\*     trigger supplied, the trigger is pending or has been invoked, exactly
\*     once in all, with the id of the node the call created; when it was
\*     invoked the node was in the store unless the node had been deleted
\*     between the call and the invocation.
\* ------------------------------------------------------------------------
C8_TriggerOnceWithNewId ==
    /\ \A id \in DOMAIN derivedFrom :
          derivedFrom[id].trigger
              => CountFor(generated, id) + CountFor(rafCallbacks, id) = 1
    /\ \A k \in 1 .. Len(generated) :
          LET e == generated[k] IN
          /\ e.nodeId \in DOMAIN derivedFrom
          /\ derivedFrom[e.nodeId].op = "handleChangeAngleGenerate"
          /\ derivedFrom[e.nodeId].trigger
          /\ e.present \/ e.nodeId \in everIds \ NodeIds(nodes)

C8_Witness ==
    \E k \in 1 .. Len(generated) :
        /\ generated[k].present
        /\ generated[k].nodeId \in NodeIds(nodes)
        /\ CountFor(rafCallbacks, generated[k].nodeId) = 0

\* ------------------------------------------------------------------------
\* C9  The trigger of a node is invoked only when two animation frames have
\*     run since the store update that added the node: never in the handler,
\*     never after one frame.
\* ------------------------------------------------------------------------
C9_TwoFramesBeforeTrigger ==
    /\ \A k \in 1 .. Len(generated) :
          /\ generated[k].nodeId \in DOMAIN framesSince
          /\ framesSince[generated[k].nodeId] = 2
    /\ \A k \in 1 .. Len(rafCallbacks) :
          /\ rafCallbacks[k].nodeId \in DOMAIN framesSince
          /\ framesSince[rafCallbacks[k].nodeId] < 2

C9_Witness ==
    /\ \E k \in 1 .. Len(generated) : framesSince[generated[k].nodeId] = 2
    /\ \E k \in 1 .. Len(rafCallbacks) :
          rafCallbacks[k].inner /\ framesSince[rafCallbacks[k].nodeId] = 1

\* ------------------------------------------------------------------------
\* C10 Without a trigger callback, handleChangeAngleGenerate on a source
\*     with angleSettings still appends the linked child, turns the source's
\*     angleMode off and selects the child; nothing is scheduled or invoked.
\* ------------------------------------------------------------------------
C10_NoTriggerStillCreates ==
    [][ \A sid \in NodeIds(nodes) :
          ( /\ NodeOf(nodes, sid).angleSettings # UndefinedObject
            /\ handleChangeAngleGenerate(sid, FALSE) )
          => /\ Len(nodes') = Len(nodes) + 1
             /\ Last(nodes').id \notin NodeIds(nodes)
             /\ Last(nodes').type = "IMAGE"
             /\ Last(nodes').parentIds = << sid >>
             /\ NodeOf(nodes', sid).angleMode = "false"
             /\ selectedNodeIds' = << Last(nodes').id >>
             /\ rafCallbacks' = rafCallbacks
             /\ generated' = generated ]_vars

C10_Witness ==
    /\ "no trigger" \in callCases
    /\ \E i \in MadeBy("handleChangeAngleGenerate") :
          LET d == derivedFrom[nodes[i].id] IN
          /\ ~d.trigger
          /\ d.source \in NodeIds(nodes)
          /\ NodeOf(nodes, d.source).angleMode = "false"
          /\ selectedNodeIds = << nodes[i].id >>
          /\ CountFor(rafCallbacks, nodes[i].id) = 0

\* ------------------------------------------------------------------------
\* C11 handleChangeAngleGenerate called on a store node that has no
\*     angleSettings is a no-op: the store (the source's angleMode flag
\*     included) and the selection are unchanged, nothing is scheduled and
\*     the trigger is not invoked.
\* ------------------------------------------------------------------------
C11_MissingSettingsIsNoOp ==
    [][ \A sid \in NodeIds(nodes) :
          ( /\ NodeOf(nodes, sid).angleSettings = UndefinedObject
            /\ \E t \in BOOLEAN : handleChangeAngleGenerate(sid, t) )
          => UNCHANGED << nodes, selectedNodeIds, rafCallbacks, generated >> ]_vars

C11_Witness ==
    /\ "missing angleSettings" \in callCases
    /\ \E i \in 1 .. Len(nodes) : nodes[i].angleSettings = UndefinedObject
    /\ \E i \in 1 .. Len(nodes) : nodes[i].angleSettings # UndefinedObject

\* ------------------------------------------------------------------------
\* C12 The child of a successful handleChangeAngleGenerate and the cleared
\*     angleMode of its source appear in one store update: the step that
\*     appends the child is the step that sets the source's angleMode to
\*     false, and it leaves every other node as it was. No store state lies
\*     between the two effects.
\* ------------------------------------------------------------------------
C12_ChildAndFlagTogether ==
    [][ \A sid \in NodeIds(nodes) :
          ( /\ NodeOf(nodes, sid).angleSettings # UndefinedObject
            /\ \E t \in BOOLEAN : handleChangeAngleGenerate(sid, t) )
          => /\ Len(nodes') = Len(nodes) + 1
             /\ Last(nodes').parentIds = << sid >>
             /\ NodeOf(nodes', sid).angleMode = "false"
             /\ \A i \in 1 .. Len(nodes) :
                   nodes'[i] = IF nodes[i].id = sid
                               THEN [ nodes[i] EXCEPT !.angleMode = "false" ]
                               ELSE nodes[i] ]_vars

C12_Witness ==
    \E i \in MadeBy("handleChangeAngleGenerate") :
        LET d == derivedFrom[nodes[i].id] IN
        /\ d.source \in NodeIds(nodes)
        /\ NodeOf(nodes, d.source).angleMode = "false"
        /\ NodeOf(nodes, d.source).angleSettings # UndefinedObject
        /\ nodes[i].parentIds = << d.source >>

\* ------------------------------------------------------------------------
\* The directives a prompt is expected to contain, by their wording
\* ------------------------------------------------------------------------
RightClockwise(n) ==
    "Move the camera " \o ToString(n)
        \o "° to the right side of the subject, as if walking around them clockwise."

LeftCounterClockwise(n) ==
    "Move the camera " \o ToString(n)
        \o "° to the left side of the subject, as if walking around them counter-clockwise."

RaiseLookDown(n) ==
    "Raise the camera viewpoint " \o ToString(n)
        \o "° higher, looking slightly down at the subject."

LowerLookUp(n) ==
    "Lower the camera viewpoint " \o ToString(n)
        \o "° lower, looking slightly up at the subject."

TighterFrame == "Position the camera closer to the subject for a tighter frame."

SlightlyCloser == "Move the camera slightly closer to the subject."

WideAngleLens ==
    "Use wide-angle lens perspective with slight barrel distortion at edges."

\* A directive preceded by the single space that joins it to what is before
\* it, or nothing when the directive is not emitted.
Joined(emitted, directive) == IF emitted THEN " " \o directive ELSE ""

\* The positions of the parts array that hold one of the given directives.
PartsAmong(directives) ==
    { i \in 1 .. Len(promptParts) : promptParts[i] \in directives }

RotationDirectives ==
    { RightClockwise(n) : n \in 0 .. 180 } \cup { LeftCounterClockwise(n) : n \in 0 .. 180 }

TiltDirectives ==
    { RaiseLookDown(n) : n \in 0 .. 90 } \cup { LowerLookUp(n) : n \in 0 .. 90 }

\* ------------------------------------------------------------------------
\* C13 For every settings value the returned prompt is, joined by single
\*     spaces and in this order: the preamble, the rotation directive if
\*     rotation # 0, the tilt directive if tilt # 0, the scale directive if
\*     scale > 0, the wide-angle directive iff wideAngle, the orientation
\*     sentence. For {rotation: 45, tilt: 0, scale: 0, wideAngle: false} it is
\*     exactly preamble, right/clockwise directive, orientation sentence.
\* ------------------------------------------------------------------------
C13_JoinedInFixedOrder ==
    promptOutput # Undefined =>
        LET s == promptInput IN
        /\ promptOutput =
              PREAMBLE
              \o Joined(s.rotation # 0,
                        IF s.rotation > 0 THEN RightClockwise(Abs(s.rotation))
                        ELSE LeftCounterClockwise(Abs(s.rotation)))
              \o Joined(s.tilt # 0,
                        IF s.tilt > 0 THEN RaiseLookDown(Abs(s.tilt))
                        ELSE LowerLookUp(Abs(s.tilt)))
              \o Joined(s.scale > 0,
                        IF s.scale > 50 THEN TighterFrame ELSE SlightlyCloser)
              \o Joined(s.wideAngle, WideAngleLens)
              \o " " \o ORIENTATION
        /\ s = [rotation |-> 45, tilt |-> 0, scale |-> 0, wideAngle |-> FALSE]
              => /\ promptOutput =
                      PREAMBLE \o " " \o RightClockwise(45) \o " " \o ORIENTATION
                 /\ promptParts = << PREAMBLE, RightClockwise(45), ORIENTATION >>

C13_Witness ==
    /\ promptInput = [rotation |-> 45, tilt |-> 0, scale |-> 0, wideAngle |-> FALSE]
    /\ promptOutput # Undefined
    /\ Len(promptParts) = 3

\* ------------------------------------------------------------------------
\* C14 The prompt has the tighter-frame directive and nothing else about
\*     scale when scale > 50, the slightly-closer directive and nothing else
\*     about scale when 0 < scale <= 50, and no scale directive when
\*     scale = 0; so 50 gives slightly closer and 51 gives tighter frame.
\* ------------------------------------------------------------------------
C14_ScaleThresholds ==
    promptOutput # Undefined =>
        LET s == promptInput
            alone == s.rotation = 0 /\ s.tilt = 0 /\ ~s.wideAngle
        IN
        /\ Cardinality(PartsAmong({ TighterFrame })) = (IF s.scale > 50 THEN 1 ELSE 0)
        /\ Cardinality(PartsAmong({ SlightlyCloser })) =
              (IF 0 < s.scale /\ s.scale <= 50 THEN 1 ELSE 0)
        /\ (alone /\ s.scale = 50)
              => promptOutput = PREAMBLE \o " " \o SlightlyCloser \o " " \o ORIENTATION
        /\ (alone /\ s.scale = 51)
              => promptOutput = PREAMBLE \o " " \o TighterFrame \o " " \o ORIENTATION
        /\ (alone /\ s.scale = 0)
              => promptOutput = PREAMBLE \o " " \o ORIENTATION

C14_Witness ==
    /\ promptInput.scale = 50
    /\ promptOutput # Undefined
    /\ PartsAmong({ SlightlyCloser }) # {}
    /\ PartsAmong({ TighterFrame }) = {}

\* ------------------------------------------------------------------------
\* C15 The prompt has a rotation directive iff rotation # 0 and a tilt
\*     directive iff tilt # 0; each states the absolute value of its angle;
\*     rotation > 0 is right/clockwise and rotation < 0 left/counter-clockwise,
\*     tilt > 0 is raise/look-down and tilt < 0 lower/look-up.
\* ------------------------------------------------------------------------
C15_SignedAngles ==
    promptOutput # Undefined =>
        LET s == promptInput IN
        /\ Cardinality(PartsAmong(RotationDirectives)) = (IF s.rotation # 0 THEN 1 ELSE 0)
        /\ Cardinality(PartsAmong(TiltDirectives)) = (IF s.tilt # 0 THEN 1 ELSE 0)
        /\ s.rotation > 0 => PartsAmong({ RightClockwise(s.rotation) }) # {}
        /\ s.rotation < 0 => PartsAmong({ LeftCounterClockwise(-s.rotation) }) # {}
        /\ s.tilt > 0 => PartsAmong({ RaiseLookDown(s.tilt) }) # {}
        /\ s.tilt < 0 => PartsAmong({ LowerLookUp(-s.tilt) }) # {}

C15_Witness ==
    /\ promptInput.rotation = -30
    /\ promptInput.tilt = -90
    /\ promptOutput # Undefined
    /\ PartsAmong({ LeftCounterClockwise(30) }) # {}
    /\ PartsAmong({ LowerLookUp(90) }) # {}

C17_CloseKeepsOtherFields ==
    [][ closeContextMenu =>
          /\ ~contextMenu'.isOpen
          /\ contextMenu'.x = contextMenu.x
          /\ contextMenu'.y = contextMenu.y
          /\ contextMenu'.type = contextMenu.type
          /\ contextMenu'.sourceNodeId = contextMenu.sourceNodeId
          /\ contextMenu'.connectorSide = contextMenu.connectorSide
          /\ ~contextMenu.isOpen => contextMenu' = contextMenu ]_vars

C17_Witness ==
    /\ lastOpen.op = "openConnectorMenu"
    /\ lastOpen.closed
    /\ ~contextMenu.isOpen
    /\ contextMenu.type = "node-connector"
    /\ contextMenu.x = 640
    /\ contextMenu.sourceNodeId = lastOpen.nodeId
    /\ contextMenu.connectorSide = "right"

\* ------------------------------------------------------------------------
\* C18 handleDoubleClick and handleGlobalContextMenu open the global menu at
\*     the event's clientX, clientY when the event target is the
\*     canvas-background element; for any other target they leave the
\*     context-menu state as it is, an open menu included.
\* ------------------------------------------------------------------------
C18_OnlyBackgroundOpens ==
    [][ \A target \in EventTargets, p \in ClientPoints :
          ( \/ handleDoubleClick(target, p[1], p[2])
            \/ handleGlobalContextMenu(target, p[1], p[2]) )
          => IF target = "canvas-background"
             THEN contextMenu' = [ isOpen |-> TRUE, x |-> p[1], y |-> p[2],
                                   type |-> "global",
                                   sourceNodeId |-> Undefined,
                                   connectorSide |-> Undefined ]
             ELSE contextMenu' = contextMenu ]_vars

C18_Witness ==
    /\ "other target, menu open" \in callCases
    /\ "other target, menu closed" \in callCases
    /\ contextMenu.isOpen
    /\ contextMenu.type = "node-options"
    /\ lastOpen.op = "openNodeOptionsMenu"

\* ------------------------------------------------------------------------
\* C19 In every state the hook's handlers produce, an open node-connector
\*     menu has sourceNodeId and connectorSide defined, an open node-options
\*     menu has sourceNodeId defined, and an open global menu has neither.
\* ------------------------------------------------------------------------
C19_OpenMenuFields ==
    contextMenu.isOpen =>
        /\ contextMenu.type \in { "global", "node-connector", "node-options" }
        /\ contextMenu.type = "node-connector"
              => /\ contextMenu.sourceNodeId # Undefined
                 /\ contextMenu.connectorSide \in { "left", "right" }
        /\ contextMenu.type = "node-options" => contextMenu.sourceNodeId # Undefined
        /\ contextMenu.type = "global"
              => /\ contextMenu.sourceNodeId = Undefined
                 /\ contextMenu.connectorSide = Undefined

C19_Witness ==
    /\ contextMenu.isOpen
    /\ contextMenu.type = "node-connector"
    /\ contextMenu.sourceNodeId \in Ids
    /\ contextMenu.connectorSide = "left"
    /\ prevMenu.isOpen
    /\ prevMenu.type = "global"

\* ------------------------------------------------------------------------
\* C20 Once a sign-in has established a session, then for as long as the
\*     server holds that session and the user never signed out, the modal
\*     keeps the session id and the user through every close and reopen, and
\*     an open modal does not show the sign-in view: no new sign-in is needed.
\* ------------------------------------------------------------------------
C20_SignInOnlyOnce ==
    ( /\ established # Null
      /\ established \in serverSessions
      /\ ~everSignedOut )
    => /\ sessionId = established
       /\ user = UserOf(established)
       /\ ~SignInView

\* ------------------------------------------------------------------------
\* C7  After any sequence of opening calls and closeContextMenu calls the one
\*     ContextMenuState holds exactly what the latest opening call set: its
\*     type, x, y, sourceNodeId and connectorSide, with nothing carried over
\*     from an earlier menu; it is open iff it was not closed since.
\* ------------------------------------------------------------------------
GlobalOpeners == { "handleDoubleClick", "handleGlobalContextMenu", "handleToolbarAdd" }

C7_LatestOpenWins ==
    lastOpen.op # "none" =>
        /\ contextMenu.isOpen = ~lastOpen.closed
        /\ contextMenu.type =
              ( IF lastOpen.op \in GlobalOpeners THEN "global"
                ELSE IF lastOpen.op = "openConnectorMenu" THEN "node-connector"
                ELSE "node-options" )
        /\ contextMenu.x =
              ( IF lastOpen.op = "handleToolbarAdd" THEN lastOpen.x + 10
                ELSE IF lastOpen.op = "openConnectorMenu" THEN lastOpen.x \div 2
                ELSE lastOpen.x )
        /\ contextMenu.y =
              ( IF lastOpen.op = "openConnectorMenu" THEN lastOpen.y \div 2
                ELSE lastOpen.y )
        /\ contextMenu.sourceNodeId =
              ( IF lastOpen.op \in GlobalOpeners THEN Undefined ELSE lastOpen.nodeId )
        /\ contextMenu.connectorSide =
              ( IF lastOpen.op = "openConnectorMenu" THEN lastOpen.side ELSE Undefined )

C7_Witness ==
    /\ prevMenu.isOpen
    /\ prevMenu.type = "node-connector"
    /\ prevMenu.sourceNodeId # Undefined
    /\ contextMenu.isOpen
    /\ contextMenu.type = "global"
    /\ contextMenu.sourceNodeId = Undefined
    /\ contextMenu.connectorSide = Undefined

\* ------------------------------------------------------------------------
\* C22 After every successful derivation (image-to-image, image-to-video,
\*     angle regeneration) the selection is exactly the one-element list with
\*     the id of the node the call created, whatever was selected before, and
\*     that id is the id of a node of the store.
\* ------------------------------------------------------------------------
C22_SelectsNewNodeOnly ==
    [][ \A sid \in NodeIds(nodes) :
          ( \/ handleImageToImage(sid)
            \/ handleImageToVideo(sid)
            \/ /\ NodeOf(nodes, sid).angleSettings # UndefinedObject
               /\ \E t \in BOOLEAN : handleChangeAngleGenerate(sid, t) )
          => /\ Len(selectedNodeIds') = 1
             /\ selectedNodeIds'[1] \notin NodeIds(nodes)
             /\ selectedNodeIds'[1] = Last(nodes').id
             /\ selectedNodeIds'[1] \in NodeIds(nodes') ]_vars

C22_Witness ==
    /\ Len(nodes) = 3
    /\ nodes[2].id \in DOMAIN derivedFrom
    /\ nodes[3].id \in DOMAIN derivedFrom
    /\ derivedFrom[nodes[3].id].op = "handleImageToVideo"
    /\ selectedNodeIds = << nodes[3].id >>

\* ------------------------------------------------------------------------
\* C23 A node created by handleImageToImage or handleImageToVideo has an
\*     empty prompt, IDLE status and aspectRatio and resolution 'Auto'
\*     whatever the source has; a node created by handleChangeAngleGenerate
\*     has IDLE status, imageModel 'gemini-pro', the prompt
\*     buildAnglePrompt(source.angleSettings) and the source's aspectRatio and
\*     resolution, 'Auto' where the source has none.
\* ------------------------------------------------------------------------
C23_ChildConfiguration ==
    [][ \A sid \in NodeIds(nodes) :
          LET S == NodeOf(nodes, sid)
              N == Last(nodes')
          IN
          /\ ( handleImageToImage(sid) \/ handleImageToVideo(sid) )
                => /\ N.prompt = ""
                   /\ N.status = "IDLE"
                   /\ N.aspectRatio = "Auto"
                   /\ N.resolution = "Auto"
          /\ ( /\ S.angleSettings # UndefinedObject
               /\ \E t \in BOOLEAN : handleChangeAngleGenerate(sid, t) )
                => /\ N.status = "IDLE"
                   /\ N.imageModel = "gemini-pro"
                   /\ N.prompt = buildAnglePrompt(S.angleSettings)
                   /\ S.angleSettings =
                         [rotation |-> -30, tilt |-> 20, scale |-> 60, wideAngle |-> TRUE]
                         => N.prompt =
                              PREAMBLE \o " " \o LeftCounterClockwise(30)
                              \o " " \o RaiseLookDown(20) \o " " \o TighterFrame
                              \o " " \o WideAngleLens \o " " \o ORIENTATION
                   /\ N.aspectRatio =
                         (IF S.aspectRatio = Undefined THEN "Auto" ELSE S.aspectRatio)
                   /\ N.resolution =
                         (IF S.resolution = Undefined THEN "Auto" ELSE S.resolution) ]_vars

C23_Witness ==
    \E i \in MadeBy("handleImageToImage"), j \in MadeBy("handleChangeAngleGenerate") :
        LET si == derivedFrom[nodes[i].id].source
            sj == derivedFrom[nodes[j].id].source
        IN
        /\ si \in NodeIds(nodes)
        /\ NodeOf(nodes, si).aspectRatio = "16:9"
        /\ nodes[i].aspectRatio = "Auto"
        /\ sj \in NodeIds(nodes)
        /\ NodeOf(nodes, sj).aspectRatio = "16:9"
        /\ NodeOf(nodes, sj).resolution = Undefined
        /\ nodes[j].aspectRatio = "16:9"
        /\ nodes[j].resolution = "Auto"
        /\ nodes[j].imageModel = "gemini-pro"

\* ------------------------------------------------------------------------
\* C24 handleContextMenuSelect invoked while no menu is open
\*     (contextMenu.isOpen = false) is a no-op: the dispatcher is not called
\*     with the stale menu snapshot, and neither the context-menu state nor
\*     the Node Store changes.
\* ------------------------------------------------------------------------
C24_ClosedSelectIsNoOp ==
    [][ \A choice \in MenuChoices :
          ( /\ ~contextMenu.isOpen
            /\ handleContextMenuSelect(choice) )
          => UNCHANGED << dispatchCalls, lastDispatch, contextMenu, nodes >> ]_vars

\* ------------------------------------------------------------------------
\* C21 Every store write of the derivation handlers replaces the collection
\*     and keeps what was there: handleImageToImage and handleImageToVideo
\*     leave every node that was in the store as it was and where it was and
\*     put the new node last; handleChangeAngleGenerate changes nothing in
\*     the nodes that were there but the source's angleMode flag; the store
\*     a reader held before the write is as it was taken.
\* ------------------------------------------------------------------------
C21_WritesPreserveContent ==
    [][ \A sid \in NodeIds(nodes) :
          /\ ( handleImageToImage(sid) \/ handleImageToVideo(sid) )
                => /\ Len(nodes') = Len(nodes) + 1
                   /\ \A i \in 1 .. Len(nodes) : nodes'[i] = nodes[i]
                   /\ Last(nodes').id \notin NodeIds(nodes)
                   /\ snapshot' = nodes
          /\ ( /\ NodeOf(nodes, sid).angleSettings # UndefinedObject
               /\ \E t \in BOOLEAN : handleChangeAngleGenerate(sid, t) )
                => /\ Len(nodes') = Len(nodes) + 1
                   /\ \A i \in 1 .. Len(nodes) :
                         /\ nodes[i].id # sid => nodes'[i] = nodes[i]
                         /\ [ nodes'[i] EXCEPT !.angleMode = nodes[i].angleMode ] = nodes[i]
                   /\ Last(nodes').id \notin NodeIds(nodes)
                   /\ snapshot' = nodes ]_vars

C21_Witness ==
    /\ Len(nodes) = 3
    /\ Len(snapshot) = 2
    /\ derivedFrom[nodes[3].id].op = "handleChangeAngleGenerate"
    /\ \E i \in 1 .. 2 :
          /\ nodes[i].id = derivedFrom[nodes[3].id].source
          /\ snapshot[i].angleMode = "true"
          /\ nodes[i].angleMode = "false"
          /\ [ nodes[i] EXCEPT !.angleMode = "true" ] = snapshot[i]
    /\ \E i \in 1 .. 2 : nodes[i] = snapshot[i]

\* ------------------------------------------------------------------------
\* C25 The face-detection models are initialised at most once in the
\*     process: whatever the number of instances and the order of their
\*     mounts, at most one load is in flight at any time and no load is
\*     started once a load has succeeded; a load that fails clears the
\*     in-progress flag, so that an instance mounting later can start a load.
\* ------------------------------------------------------------------------
C25_AtMostOneLoad ==
    /\ [] ( /\ Cardinality(loadsInFlight) <= 1
            /\ modelsLoading <=> loadsInFlight # {}
            /\ modelsLoaded => loadsInFlight = {} )
    /\ [][ /\ loadsStarted' # loadsStarted
               => /\ ~modelsLoaded
                  /\ loadsInFlight = {}
                  /\ loadsStarted' = loadsStarted + 1
           /\ modelsLoaded => modelsLoaded'
           /\ loadsFailed' # loadsFailed => ~modelsLoading' ]_vars

C25_Witness ==
    /\ loadsFailed = 1
    /\ loadsStarted = 2
    /\ loadsInFlight = { 2 }
    /\ modelsLoading
    /\ hooks[3].phase = "mounted"
    /\ ~hooks[3].isModelLoaded

\* ------------------------------------------------------------------------
\* C26 Every instance that is mounted when the shared load succeeds
\*     eventually reports isModelLoaded = true, the instances that mounted
\*     while another instance's load was in flight included: no mounted
\*     instance stays at isModelLoaded = false forever while modelsLoaded is
\*     true.
\* ------------------------------------------------------------------------
C26_MountedSeeLoaded ==
    \A h \in Hooks :
        ( modelsLoaded /\ hooks[h].phase \in { "rendered", "mounted" } )
            ~> ( hooks[h].isModelLoaded \/ hooks[h].phase = "gone" )

\* ------------------------------------------------------------------------
\* C27 For one instance, isLoading is true whenever at least one detectFaces
\*     call that passed the models-loaded check is still in flight and false
\*     when none is, however overlapping calls that succeed or fail are
\*     interleaved; a call made before the models are loaded returns an
\*     empty list and leaves isLoading as it was.
\* ------------------------------------------------------------------------
C27_LoadingWhileDetecting ==
    /\ \A h \in Hooks :
          hooks[h].phase \in { "rendered", "mounted" }
              => ( hooks[h].isLoading <=> detecting[h] > 0 )
    /\ ( lastDetect # NoDetect /\ ~lastDetect.passed )
          => /\ lastDetect.returned = "empty"
             /\ lastDetect.after = lastDetect.before

\* ------------------------------------------------------------------------
\* C28 In the Twitter post modal, whenever user is non-null (the compose
\*     view is shown) sessionId is non-null too, however modal opens with
\*     their checkAuthStatus request and response, auth popup messages and
\*     handleLogout with its request and response are interleaved: a shown
\*     Post button never does nothing for lack of a session.
\* ------------------------------------------------------------------------
C28_UserImpliesSession ==
    user # NullUser => sessionId # Null

\* ------------------------------------------------------------------------
\* C29 While a post is in flight (status = 'posting') no gesture of the user
\*     on the modal calls onClose: backdrop click, header close button,
\*     Cancel button and Escape key are without effect until the status is
\*     'success' or 'error'; and every 'posting' status is eventually
\*     followed by 'success' or 'error'.
\* ------------------------------------------------------------------------
C29_NoCloseWhilePosting ==
    /\ [][ ( isOpen /\ status = "posting" ) => isOpen' ]_vars
    /\ ( status = "posting" ) ~> ( status \in { "success", "error" } )

\* ------------------------------------------------------------------------
\* C30 POST /post validates before any side effect: a request without a
\*     session header is answered 401, one whose text is missing or only
\*     white space 400, one whose text is longer than 280 characters 400, and
\*     in none of these cases is media uploaded or a tweet posted; every
\*     request handlePost sends has a session, a text that is not blank and
\*     at most 280 characters, and passes the three checks.
\* ------------------------------------------------------------------------
Blank(text) == \A i \in 1 .. Len(text) : text[i] \in { " ", "\n", "\t" }

ValidationErrors ==
    { "Not authenticated. Please login first.", "Tweet text is required",
      "Tweet exceeds 280 character limit" }

====
